---------------------------- MODULE Spec2Model ----------------------------
(***************************************************************************)
(* A model of chatgpt2md.py: the conversion of an exported conversation    *)
(* tree (mapping + current_node) into one Markdown document.               *)
(*                                                                         *)
(* The components modelled, each with a specification of its own:          *)
(*   SpecBranch   the parent walk of parse_chat_to_markdown (lines 635-646)*)
(*   SpecSession  the ReasoningSession class under arbitrary call orders   *)
(*   SpecFlush    the same, beside a session created at the last flush     *)
(*   SpecDriver   the node loop of parse_chat_to_markdown (lines 648-767)  *)
(*   SpecMath     the line scanner beautify_markdown (SpecMathFair: run to *)
(*                its end)                                                 *)
(*   SpecQuote    _to_blockquote and _render_code_run on their arguments   *)
(*   SpecThoughts the session with the thoughts arrays of whole messages   *)
(*   SpecKinds    the node loop over the role and content-kind combinations*)
(* A specification leaves the variables of the other components idle.      *)
(*                                                                         *)
(* Representation of Python values:                                        *)
(*   - a node id is a number 1..NumIds; 0 stands for every falsy id        *)
(*     (None, a missing key, the empty string);                            *)
(*   - a str is the sequence of its lines (what str.split('\n') returns),  *)
(*     so "" is << <<>> >>; a line is a sequence of tokens; a token is one *)
(*     character, except that the fence marker and the four math        *)
(*     delimiters are one token each and a run of ordinary characters may  *)
(*     be one token;                                                       *)
(*   - None is <<>> where a str may be absent, NoTime where a float may.   *)
(***************************************************************************)
EXTENDS Integers, Sequences, FiniteSets, TLC

VARIABLES
    mapping,        \* data["mapping"]: node id -> node
    current_node,   \* data["current_node"]
    current_id,     \* the walk's cursor
    branch_ids,     \* the accumulator of the walk
    bpc,            \* position in lines 636-646: "walk", "reverse", "done"
    lines,          \* beautify_markdown: the lines of md_text
    out,            \* beautify_markdown: the lines emitted so far
    in_code,        \* beautify_markdown: the fence flag
    i,              \* beautify_markdown: index of the next line (from 1)
    scanned,        \* history: what the last iteration of the scan read and did
    session,        \* the ReasoningSession: [items, recap_text, seq]
    block,          \* what the last call returned (None unless it was a flush)
    found,          \* history: <<the session the last call found>> if it was a flush
    fresh,          \* <<a session created at the last flush and given the same calls>>
    fresh_block,    \* <<what the last call returned on fresh>> if it was a flush
    out_lines,      \* parse_chat_to_markdown: the lines of the document so far
    dpc,            \* position in lines 648-767: "loop", "done"
    trace,          \* history: per node visited, its message, the session it found
                    \* and left, and the lines of out_lines it added (from+1..to)
    qin,            \* the arguments of a call of _render_code_run
    qout,           \* what the call returned
    qpc             \* "start", then the function that was called

branchVars == <<mapping, current_node, current_id, branch_ids, bpc>>

mathVars == <<lines, out, in_code, i, scanned>>

sessVars == <<session, block, found, fresh, fresh_block>>

drvVars == <<out_lines, dpc, trace>>

quoteVars == <<qin, qout, qpc>>

vars == <<branchVars, mathVars, sessVars, drvVars, quoteVars>>

\* the variables each component leaves alone
notBranch == <<mathVars, sessVars, drvVars, quoteVars>>

notMath == <<branchVars, sessVars, drvVars, quoteVars>>

notSession == <<branchVars, mathVars, drvVars, quoteVars>>

notDriver == <<branchVars, mathVars, block, found, fresh, fresh_block, quoteVars>>

notQuote == <<branchVars, mathVars, sessVars, drvVars>>

IdleBranch ==
    /\ mapping = <<>>
    /\ current_node = 0
    /\ current_id = 0
    /\ branch_ids = <<>>
    /\ bpc = "idle"

IdleSession ==
    /\ session = <<>>
    /\ block = <<>>
    /\ found = <<>>
    /\ fresh = <<>>
    /\ fresh_block = <<>>

IdleMath ==
    /\ lines = <<>>
    /\ out = <<>>
    /\ in_code = FALSE
    /\ i = 0
    /\ scanned = <<>>

IdleDriver ==
    /\ out_lines = <<>>
    /\ dpc = "idle"
    /\ trace = <<>>

IdleQuote ==
    /\ qin = <<>>
    /\ qout = <<>>
    /\ qpc = "idle"

----------------------------------------------------------------------------
(* Branch resolution: parse_chat_to_markdown, lines 632-646.               *)

NumIds == 3

NodeIds == 1..NumIds

\* the walk of a graph with a parent cycle never ends; the model follows it
\* for this many appended ids
WalkCap == NumIds + 2

\* A key of mapping is "absent" (not a key), "empty" (its value is None or
\* {}: falsy, so line 639 leaves the loop) or a "node" (a non-empty dict).
\* Only a node has a parent field; parent 0 is a missing or falsy parent.
NodeVals ==
    {[kind |-> "absent", parent |-> 0], [kind |-> "empty", parent |-> 0]}
        \cup {[kind |-> "node", parent |-> p] : p \in 0..NumIds}

\* mapping.get(id) is truthy
HasNode(id) == id \in NodeIds /\ mapping[id].kind = "node"

\* id in mapping
IsKey(id) == id \in NodeIds /\ mapping[id].kind # "absent"

InitBranch ==
    /\ mapping \in [NodeIds -> NodeVals]
    /\ current_node \in 0..NumIds
    /\ current_id = current_node
    /\ branch_ids = <<>>
    /\ bpc = "walk"
    /\ IdleMath
    /\ IdleSession
    /\ IdleDriver
    /\ IdleQuote

\* the while condition of line 637 is false
BranchExit ==
    /\ bpc = "walk"
    /\ current_id = 0
    /\ bpc' = "reverse"
    /\ UNCHANGED <<mapping, current_node, current_id, branch_ids>>
    /\ UNCHANGED notBranch

\* BranchStep with the cursor never moved to the parent
BranchStepStuck ==
    /\ bpc = "walk"
    /\ current_id # 0
    /\ Len(branch_ids) < WalkCap
    /\ IF ~HasNode(current_id)
       THEN /\ bpc' = "reverse"
            /\ UNCHANGED branch_ids
       ELSE /\ branch_ids' = Append(branch_ids, current_id)
            /\ LET parent == mapping[current_id].parent IN
               IF parent = 0 \/ ~IsKey(parent)
               THEN bpc' = "reverse"
               ELSE UNCHANGED bpc
    /\ UNCHANGED <<mapping, current_node, current_id>>
    /\ UNCHANGED notBranch

\* BranchStep with the id appended before its node is looked up
BranchStepAppendFirst ==
    /\ bpc = "walk"
    /\ current_id # 0
    /\ Len(branch_ids) < WalkCap
    /\ branch_ids' = Append(branch_ids, current_id)
    /\ IF ~HasNode(current_id)
       THEN /\ bpc' = "reverse"
            /\ UNCHANGED current_id
       ELSE LET parent == mapping[current_id].parent IN
            IF parent = 0
            THEN /\ bpc' = "reverse"
                 /\ UNCHANGED current_id
            ELSE /\ current_id' = parent
                 /\ UNCHANGED bpc
    /\ UNCHANGED <<mapping, current_node>>
    /\ UNCHANGED notBranch

\* one iteration of the loop of lines 637-645
BranchStep ==
    /\ bpc = "walk"
    /\ current_id # 0
    /\ Len(branch_ids) < WalkCap
    /\ IF ~HasNode(current_id)
       THEN /\ bpc' = "reverse"
            /\ UNCHANGED <<current_id, branch_ids>>
       ELSE /\ branch_ids' = Append(branch_ids, current_id)
            /\ LET parent == mapping[current_id].parent IN
               IF parent = 0 \/ ~IsKey(parent)
               THEN /\ bpc' = "reverse"
                    /\ UNCHANGED current_id
               ELSE /\ current_id' = parent
                    /\ UNCHANGED bpc
    /\ UNCHANGED <<mapping, current_node>>
    /\ UNCHANGED notBranch

Reverse(s) == [k \in 1..Len(s) |-> s[Len(s) + 1 - k]]

\* BranchReverse without the reversal
BranchNoReverse ==
    /\ bpc = "reverse"
    /\ bpc' = "done"
    /\ UNCHANGED <<mapping, current_node, current_id, branch_ids>>
    /\ UNCHANGED notBranch

\* line 646
BranchReverse ==
    /\ bpc = "reverse"
    /\ branch_ids' = Reverse(branch_ids)
    /\ bpc' = "done"
    /\ UNCHANGED <<mapping, current_node, current_id>>
    /\ UNCHANGED notBranch

NextBranch == BranchExit \/ BranchStep \/ BranchReverse

SpecBranch == InitBranch /\ [][NextBranch]_vars

\* the loop is sequential code: it runs while a step is possible
SpecBranchFair == SpecBranch /\ WF_vars(NextBranch)

(* Claims about branch resolution. *)

\* the parent field the walk reads at a node
ParentOf(id) == IF HasNode(id) THEN mapping[id].parent ELSE 0

\* S with the parents that are nodes added
Up(S) == S \cup {p \in NodeIds : HasNode(p) /\ \E x \in S : ParentOf(x) = p}

RECURSIVE UpClosure(_, _)
UpClosure(S, n) == IF n = 0 THEN S ELSE UpClosure(Up(S), n - 1)

\* id and its ancestors, as far as nodes go
AncestorsOrSelf(id) == UpClosure({k \in {id} : HasNode(k)}, NumIds)

StrictAncestors(id) ==
    UpClosure({p \in NodeIds : HasNode(p) /\ ParentOf(id) = p}, NumIds)

Acyclic == \A k \in NodeIds : k \notin StrictAncestors(k)

NoCycleFromLeaf == \A k \in AncestorsOrSelf(current_node) : k \notin StrictAncestors(k)

GraphNodes == {k \in NodeIds : HasNode(k)}

\* C1: in a graph without a parent cycle, for a leaf that has a node, the
\* resolved branch ends with the leaf, each element's parent is the element
\* before it, the first element has no parent or a parent without a node,
\* no id occurs twice, and its length is the number of the leaf's ancestors
\* (itself included).
C1_BranchRootFirst ==
    (bpc = "done" /\ Acyclic /\ HasNode(current_node)) =>
        LET b == branch_ids IN
        /\ Len(b) >= 1
        /\ b[Len(b)] = current_node
        /\ \A k \in 2..Len(b) : ParentOf(b[k]) = b[k - 1]
        /\ ParentOf(b[1]) = 0 \/ ~HasNode(ParentOf(b[1]))
        /\ \A j, k \in 1..Len(b) : b[j] = b[k] => j = k
        /\ Len(b) = Cardinality(AncestorsOrSelf(current_node))

\* a chain of two or more whose root names a key that is not in the mapping
C1_Witness ==
    /\ bpc = "done" /\ Acyclic /\ HasNode(current_node)
    /\ Len(branch_ids) >= 2
    /\ ParentOf(branch_ids[1]) # 0

\* C2, as stated: on every graph the walk appends at most as many ids as the
\* graph has nodes (and ends).
C2_Original == Len(branch_ids) <= Cardinality(GraphNodes)

\* C2, amended: when no parent cycle is reachable from the leaf, the walk
\* ends, having appended at most as many ids as the graph has nodes.
C2_WalkTerminates ==
    /\ NoCycleFromLeaf ~> (bpc = "done")
    /\ [](NoCycleFromLeaf => Len(branch_ids) <= Cardinality(GraphNodes))

\* a finished walk that appended every node of the graph
C2_Witness ==
    /\ bpc = "done" /\ NoCycleFromLeaf
    /\ Len(branch_ids) >= 2
    /\ Len(branch_ids) = Cardinality(GraphNodes)

----------------------------------------------------------------------------
(* Strings.                                                                *)

\* the empty str
EmptyStr == << <<>> >>

\* None, where a str may be absent (a str has at least one line)
None == <<>>

IsSpace(c) == c = " "

IsDigit(c) == c \in {"0", "1", "2", "3", "4", "5", "6", "7", "8", "9"}

Min(S) == CHOOSE x \in S : \A y \in S : x <= y

Max(S) == CHOOSE x \in S : \A y \in S : x >= y

\* the first index from k on of a token of ln that is not c-like, Len + 1 if none
SkipSpaces(ln, k) ==
    LET rest == {j \in k..Len(ln) : ~IsSpace(ln[j])} IN
    IF rest = {} THEN Len(ln) + 1 ELSE Min(rest)

SkipQuotes(ln, k) ==
    LET rest == {j \in k..Len(ln) : ln[j] # ">"} IN
    IF rest = {} THEN Len(ln) + 1 ELSE Min(rest)

SkipDigits(ln, k) ==
    LET rest == {j \in k..Len(ln) : ~IsDigit(ln[j])} IN
    IF rest = {} THEN Len(ln) + 1 ELSE Min(rest)

\* str.lstrip(), str.rstrip() and str.strip() of one line
LStripLine(ln) == SubSeq(ln, SkipSpaces(ln, 1), Len(ln))

RStripLine(ln) ==
    LET keep == {j \in 1..Len(ln) : ~IsSpace(ln[j])} IN
    IF keep = {} THEN <<>> ELSE SubSeq(ln, 1, Max(keep))

StripLine(ln) == LStripLine(RStripLine(ln))

IsBlankLine(ln) == StripLine(ln) = <<>>

\* "\n".join(strs): the lines of the strs, one after the other
RECURSIVE JoinNL(_)
JoinNL(strs) ==
    IF strs = <<>> THEN EmptyStr
    ELSE IF Len(strs) = 1 THEN strs[1]
    ELSE strs[1] \o JoinNL(Tail(strs))

\* "\n\n".join(strs)
RECURSIVE JoinNLNL(_)
JoinNLNL(strs) ==
    IF strs = <<>> THEN EmptyStr
    ELSE IF Len(strs) = 1 THEN strs[1]
    ELSE strs[1] \o << <<>> >> \o JoinNLNL(Tail(strs))

\* a + b
Cat(a, b) ==
    SubSeq(a, 1, Len(a) - 1) \o << a[Len(a)] \o b[1] >> \o Tail(b)

\* str.splitlines(): a final line break opens no line
SplitLines(t) == IF t[Len(t)] = <<>> THEN SubSeq(t, 1, Len(t) - 1) ELSE t

\* str.lstrip() across lines
LStrip(t) ==
    LET keep == {j \in 1..Len(t) : ~IsBlankLine(t[j])} IN
    IF keep = {} THEN EmptyStr
    ELSE << LStripLine(t[Min(keep)]) >> \o SubSeq(t, Min(keep) + 1, Len(t))

\* str.rstrip() across lines
RStrip(t) ==
    LET keep == {j \in 1..Len(t) : ~IsBlankLine(t[j])} IN
    IF keep = {} THEN EmptyStr
    ELSE SubSeq(t, 1, Max(keep) - 1) \o << RStripLine(t[Max(keep)]) >>

\* str.strip()
Strip(t) == LStrip(RStrip(t))

\* str.rstrip("\n")
RStripNL(t) ==
    LET keep == {j \in 1..Len(t) : t[j] # <<>>} IN
    IF keep = {} THEN EmptyStr ELSE SubSeq(t, 1, Max(keep))

\* str.strip("\n")
StripNL(t) ==
    LET keep == {j \in 1..Len(t) : t[j] # <<>>} IN
    IF keep = {} THEN EmptyStr ELSE SubSeq(t, Min(keep), Max(keep))

\* s or ""
OrEmpty(t) == IF t = None THEN EmptyStr ELSE t

\* bool(s) of an Optional[str]
Truthy(t) == t # None /\ t # EmptyStr

----------------------------------------------------------------------------
(* beautify_markdown, lines 149-249.                                       *)

\* the three backticks of a fence marker, as one token
Fence == "[fence]"

DisplayOpen == "\\["

DisplayClose == "\\]"

InlineOpen == "\\("

InlineClose == "\\)"

\* _FENCE_RE.match(ln): optional whitespace, optionally one or more '>' and
\* optional whitespace, then three backticks
FENCE_RE(ln) ==
    LET p == SkipSpaces(ln, 1)
        q == SkipQuotes(ln, p)
        r == IF q > p THEN SkipSpaces(ln, q) ELSE p
    IN  r <= Len(ln) /\ ln[r] = Fence

\* _LIST_LINE_RE.match(ln): optional whitespace, then '-' or '*' or digits
\* and a dot, then whitespace
LIST_LINE_RE(ln) ==
    LET p == SkipSpaces(ln, 1)
        d == SkipDigits(ln, p)
    IN  \/ /\ p + 1 <= Len(ln)
           /\ ln[p] \in {"-", "*"}
           /\ IsSpace(ln[p + 1])
        \/ /\ d > p
           /\ d + 1 <= Len(ln)
           /\ ln[d] = "."
           /\ IsSpace(ln[d + 1])

\* _in_list_context(prev): back to the nearest blank line
RECURSIVE InListContext(_)
InListContext(prev) ==
    IF prev = <<>> THEN FALSE
    ELSE IF IsBlankLine(prev[Len(prev)]) THEN FALSE
    ELSE IF LIST_LINE_RE(prev[Len(prev)]) THEN TRUE
    ELSE InListContext(SubSeq(prev, 1, Len(prev) - 1))

\* the leftmost match in ln, from index k on, of open, one or more tokens (as
\* few as possible) and close, as
\* <<start, end>>; <<>> if there is none
PairMatch(ln, k, open, close) ==
    LET starts == {s \in k..Len(ln) :
                      /\ ln[s] = open
                      /\ \E e \in (s + 2)..Len(ln) : ln[e] = close}
    IN  IF starts = {} THEN <<>>
        ELSE LET s == Min(starts) IN
             <<s, Min({e \in (s + 2)..Len(ln) : ln[e] = close})>>

\* line 244: every inline pair of ln from index k on turned into $...$
RECURSIVE InlineSub(_, _)
InlineSub(ln, k) ==
    LET m == PairMatch(ln, k, InlineOpen, InlineClose) IN
    IF m = <<>> THEN SubSeq(ln, k, Len(ln))
    ELSE SubSeq(ln, k, m[1] - 1) \o <<"$">> \o SubSeq(ln, m[1] + 1, m[2] - 1)
             \o <<"$">> \o InlineSub(ln, m[2] + 1)

\* lines 206-207 and 228-229 left out
WithoutBlank(o) == o

\* lines 206-207 and 228-229: a blank line unless one is there
WithBlank(o) ==
    IF o # <<>> /\ ~IsBlankLine(o[Len(o)]) THEN Append(o, <<>>) ELSE o

\* lines 203 and 224
IndentFor(o) == IF InListContext(o) THEN <<" ", " ">> ELSE <<>>

\* DisplayBlock with the increment of line 201 made whether or not a closer
\* was found
DisplayBlockSkipAlways(st) ==
    LET ls == st.lines
        closes == {j \in (st.i + 1)..Len(ls) : StripLine(ls[j]) = <<DisplayClose>>}
        stop == IF closes = {} THEN Len(ls) + 1 ELSE Min(closes)
        formula_lines == [j \in 1..(stop - st.i - 1) |-> StripLine(ls[st.i + j])]
        indent == IndentFor(st.out)
    IN  [st EXCEPT
            !.i = stop + 1,
            !.out = WithBlank(st.out) \o << indent \o <<"$", "$">> >>
                        \o [j \in 1..Len(formula_lines) |-> indent \o formula_lines[j]]
                        \o << indent \o <<"$", "$">> >> \o << <<>> >>]

\* lines 194-216: the iteration at a line that is exactly the display opener
DisplayBlock(st) ==
    LET ls == st.lines
        closes == {j \in (st.i + 1)..Len(ls) : StripLine(ls[j]) = <<DisplayClose>>}
        stop == IF closes = {} THEN Len(ls) + 1 ELSE Min(closes)
        formula_lines == [j \in 1..(stop - st.i - 1) |-> StripLine(ls[st.i + j])]
        indent == IndentFor(st.out)
    IN  [st EXCEPT
            !.i = IF stop <= Len(ls) THEN stop + 1 ELSE stop,
            !.out = WithBlank(st.out) \o << indent \o <<"$", "$">> >>
                        \o [j \in 1..Len(formula_lines) |-> indent \o formula_lines[j]]
                        \o << indent \o <<"$", "$">> >> \o << <<>> >>]

\* lines 219-241: the iteration at a line that holds a display pair
DisplayInline(st, m) ==
    LET line == st.lines[st.i]
        before == RStripLine(SubSeq(line, 1, m[1] - 1))
        mid == StripLine(SubSeq(line, m[1] + 1, m[2] - 1))
        after == LStripLine(SubSeq(line, m[2] + 1, Len(line)))
        indent == IndentFor(st.out)
        o1 == IF before # <<>> THEN Append(st.out, before) ELSE st.out
        subs == IF mid = <<>> THEN <<>> ELSE << indent \o mid >>
    IN  [st EXCEPT
            !.i = st.i + 1,
            !.out = WithBlank(o1) \o << indent \o <<"$", "$">> >> \o subs
                        \o << indent \o <<"$", "$">> >>
                        \o (IF after # <<>> THEN << <<>>, after >> ELSE <<>>)]

\* the scan with the fence flag never consulted (lines 188-191 left out)
BeautifyIterNoSkip(st) ==
    LET line == st.lines[st.i]
        m == PairMatch(line, 1, DisplayOpen, DisplayClose)
    IN  IF FENCE_RE(line)
        THEN [st EXCEPT !.in_code = ~st.in_code, !.out = Append(st.out, line),
                        !.i = st.i + 1]
        ELSE IF StripLine(line) = <<DisplayOpen>> THEN DisplayBlock(st)
        ELSE IF m # <<>> THEN DisplayInline(st, m)
        ELSE [st EXCEPT !.out = Append(st.out, InlineSub(line, 1)), !.i = st.i + 1]

\* the scan with a blank line outside a fence dropped instead of emitted
BeautifyIterDropBlank(st) ==
    LET line == st.lines[st.i]
        m == PairMatch(line, 1, DisplayOpen, DisplayClose)
    IN  IF FENCE_RE(line)
        THEN [st EXCEPT !.in_code = ~st.in_code, !.out = Append(st.out, line),
                        !.i = st.i + 1]
        ELSE IF st.in_code
        THEN [st EXCEPT !.out = Append(st.out, line), !.i = st.i + 1]
        ELSE IF StripLine(line) = <<DisplayOpen>> THEN DisplayBlock(st)
        ELSE IF m # <<>> THEN DisplayInline(st, m)
        ELSE IF IsBlankLine(line) THEN [st EXCEPT !.i = st.i + 1]
        ELSE [st EXCEPT !.out = Append(st.out, InlineSub(line, 1)), !.i = st.i + 1]

\* one iteration of the loop of lines 176-247 on st = [lines, out, in_code, i]
BeautifyIter(st) ==
    LET line == st.lines[st.i]
        m == PairMatch(line, 1, DisplayOpen, DisplayClose)
    IN  IF FENCE_RE(line)
        THEN [st EXCEPT !.in_code = ~st.in_code, !.out = Append(st.out, line),
                        !.i = st.i + 1]
        ELSE IF st.in_code
        THEN [st EXCEPT !.out = Append(st.out, line), !.i = st.i + 1]
        ELSE IF StripLine(line) = <<DisplayOpen>> THEN DisplayBlock(st)
        ELSE IF m # <<>> THEN DisplayInline(st, m)
        ELSE [st EXCEPT !.out = Append(st.out, InlineSub(line, 1)), !.i = st.i + 1]

RECURSIVE BeautifyLoop(_)
BeautifyLoop(st) ==
    IF st.i > Len(st.lines) THEN st.out ELSE BeautifyLoop(BeautifyIter(st))

\* beautify_markdown(md_text)
beautify_markdown(md_text) ==
    BeautifyLoop([lines |-> md_text, out |-> <<>>, in_code |-> FALSE, i |-> 1])

MaxLines == 3

\* the lines an input of the scan is made of
MathLines ==
    { <<>>,
      <<"a">>,
      <<Fence>>,
      <<">", " ", Fence, "py">>,
      <<" ", " ", Fence>>,
      <<DisplayOpen>>,
      <<DisplayClose>>,
      <<InlineOpen, "x", InlineClose>>,
      <<"-", " ", "a">>,
      <<"a", DisplayOpen, "x", DisplayClose, "b">>,
      <<DisplayOpen, "x", DisplayClose>> }

MathInputs == UNION {[1..n -> MathLines] : n \in 1..MaxLines}

InitMath ==
    /\ lines \in MathInputs
    /\ out = <<>>
    /\ in_code = FALSE
    /\ i = 1
    /\ scanned = <<>>
    /\ IdleBranch
    /\ IdleSession
    /\ IdleDriver
    /\ IdleQuote

\* one iteration of the while loop of line 176
ScanLine ==
    /\ i >= 1
    /\ i <= Len(lines)
    /\ \E before \in {[lines |-> lines, out |-> out, in_code |-> in_code, i |-> i]} :
       \E st \in {BeautifyIter(before)} :
           /\ out' = st.out
           /\ in_code' = st.in_code
           /\ i' = st.i
           /\ scanned' = << [line |-> lines[i], was_in_code |-> in_code,
                             emitted |-> SubSeq(st.out, Len(out) + 1, Len(st.out)),
                             consumed |-> st.i - i] >>
    /\ UNCHANGED lines
    /\ UNCHANGED notMath

NextMath == ScanLine

SpecMath == InitMath /\ [][NextMath]_vars

\* one line for each branch of the loop body: a blank line, a plain line, a
\* fence marker, the display opener, the display closer, a same-line pair
BranchLines ==
    { <<>>,
      <<"a">>,
      <<Fence>>,
      <<DisplayOpen>>,
      <<DisplayClose>>,
      <<"a", DisplayOpen, "x", DisplayClose, "b">> }

InitMathFair ==
    /\ InitMath
    /\ \A j \in 1..Len(lines) : lines[j] \in BranchLines

\* the loop is sequential code: it runs while an iteration is possible
SpecMathFair == InitMathFair /\ [][NextMath]_vars /\ WF_vars(NextMath)

(* Claims about the scan. *)

\* C10: the fence flag toggles at every fence marker line the scan reads, and
\* a line read while the flag is set is emitted as it is, whatever it holds.
C10_FenceLinesPassThrough ==
    \A k \in 1..Len(scanned) :
        LET sc == scanned[k] IN
        /\ FENCE_RE(sc.line) => in_code = ~sc.was_in_code
        /\ sc.was_in_code => (sc.emitted = <<sc.line>> /\ sc.consumed = 1)

\* inside a fence the scan has just read a line that is the display-math open
\* delimiter or holds inline math
C10_Witness ==
    /\ scanned # <<>>
    /\ scanned[1].was_in_code
    /\ in_code
    /\ \/ scanned[1].line = <<DisplayOpen>>
       \/ PairMatch(scanned[1].line, 1, InlineOpen, InlineClose) # <<>>

\* the scan has read all of lines: out is what beautify_markdown returns
ScanDone == i > Len(lines)

\* line j of ls is a fence marker line or lies between an opening fence
\* marker and its closing marker
InFence(ls, j) ==
    \/ FENCE_RE(ls[j])
    \/ Cardinality({k \in 1..(j - 1) : FENCE_RE(ls[k])}) % 2 = 1

\* the fence marker lines and fenced lines of ls, in order
RECURSIVE FencedLines(_, _)
FencedLines(ls, j) ==
    IF j > Len(ls) THEN <<>>
    ELSE (IF InFence(ls, j) THEN <<ls[j]>> ELSE <<>>) \o FencedLines(ls, j + 1)

\* the lines of a are among the lines of b, in the same order
RECURSIVE IsSubseq(_, _)
IsSubseq(a, b) ==
    IF a = <<>> THEN TRUE
    ELSE IF b = <<>> THEN FALSE
    ELSE IF a[1] = b[1] THEN IsSubseq(Tail(a), Tail(b))
    ELSE IsSubseq(a, Tail(b))

\* C11: every fence marker line of the input and every line between an
\* opening fence marker and its closing marker is in the output of
\* beautify_markdown unchanged, and these lines keep their order, wherever
\* display-math delimiters stand around them.
C11_FencesNeverCorrupted ==
    ScanDone => IsSubseq(FencedLines(lines, 1), out)

\* the indices of the lines of o that open or close a display-math block
DollarLines(o) == {j \in 1..Len(o) : StripLine(o[j]) = <<"$", "$">>}

\* the blocks of o as <<opening line, closing line>>: the first and second
\* delimiter line, the third and fourth, ...
BlocksOf(o) ==
    {p \in DollarLines(o) \X DollarLines(o) :
        /\ p[1] < p[2]
        /\ Cardinality({j \in DollarLines(o) : j < p[1]}) % 2 = 0
        /\ Cardinality({j \in DollarLines(o) : j > p[1] /\ j < p[2]}) = 0}

\* no line of o[a..b] starts with whitespace
NoIndent(o, a, b) == \A j \in a..b : o[j] = LStripLine(o[j])

\* C12, as stated: in the output of beautify_markdown every display-math
\* block has a blank line immediately before it and a blank line immediately
\* after it, and outside a list its lines carry no indentation.
C12_Original ==
    ScanDone =>
        \A p \in BlocksOf(out) :
            /\ p[1] > 1 /\ IsBlankLine(out[p[1] - 1])
            /\ p[2] < Len(out) /\ IsBlankLine(out[p[2] + 1])
            /\ ~InListContext(SubSeq(out, 1, p[1] - 2)) => NoIndent(out, p[1], p[2])

\* the iteration the scan has just made turned a line that is exactly the
\* display opener (and the lines up to the closer) into a block
MadeBlock ==
    /\ scanned # <<>>
    /\ ~scanned[1].was_in_code
    /\ ~FENCE_RE(scanned[1].line)
    /\ StripLine(scanned[1].line) = <<DisplayOpen>>

\* the iteration the scan has just made turned a same-line display pair into
\* a block
MadePair ==
    /\ scanned # <<>>
    /\ ~scanned[1].was_in_code
    /\ ~FENCE_RE(scanned[1].line)
    /\ StripLine(scanned[1].line) # <<DisplayOpen>>
    /\ PairMatch(scanned[1].line, 1, DisplayOpen, DisplayClose) # <<>>

\* the text after the pair on the line just read, stripped on the left
AfterPair ==
    LET line == scanned[1].line
        m == PairMatch(line, 1, DisplayOpen, DisplayClose)
    IN  LStripLine(SubSeq(line, m[2] + 1, Len(line)))

\* C12, amended: a display-math block has a blank line immediately before it
\* unless it starts the output; a block made from a line that is exactly the
\* opener is followed by a blank line; a block made from a same-line pair is
\* followed by a blank line and the rest of the line when text follows the
\* pair, and by nothing of its own otherwise; where the lines emitted before
\* are not in a list, the lines of the block carry no indentation.
C12_BlankAroundBlocks ==
    (MadeBlock \/ MadePair) =>
        LET em == scanned[1].emitted
            base == Len(out) - Len(em)
            dl == {base + j : j \in DollarLines(em)}
            a == Min(dl)
            b == Max(dl)
        IN  /\ Cardinality(dl) = 2
            /\ a = 1 \/ IsBlankLine(out[a - 1])
            /\ MadeBlock => (b + 1 = Len(out) /\ out[b + 1] = <<>>)
            /\ (MadePair /\ AfterPair # <<>>) =>
                   (b + 2 = Len(out) /\ out[b + 1] = <<>> /\ out[b + 2] = AfterPair)
            /\ (MadePair /\ AfterPair = <<>>) => b = Len(out)
            /\ ~InListContext(SubSeq(out, 1, base)) => NoIndent(out, a, b)

\* after an earlier line, a same-line pair with nothing after it has just
\* become a block: a blank line stands before it, none after it
C12_Witness ==
    /\ MadePair
    /\ AfterPair = <<>>
    /\ Len(out) > Len(scanned[1].emitted)
    /\ StripLine(out[Len(out)]) = <<"$", "$">>

\* the tokens that stand for a math delimiter or a fence marker
Delimiters == {DisplayOpen, DisplayClose, InlineOpen, InlineClose, Fence}

\* the text ls holds no display-math delimiter, no inline-math delimiter and
\* no fence marker
IsPlain(ls) == \A j \in 1..Len(ls) : \A k \in 1..Len(ls[j]) : ls[j][k] \notin Delimiters

\* C13: beautify_markdown returns a text that holds no display-math
\* delimiter, no inline-math delimiter and no fence marker as it is: the same
\* lines, in the same order.
C13_PlainTextUnchanged ==
    (ScanDone /\ IsPlain(lines)) => out = lines

\* the scan of a text of several plain lines, a blank line and a list line
\* among them, is finished
C13_Witness ==
    /\ ScanDone
    /\ IsPlain(lines)
    /\ Len(lines) >= 2
    /\ \E j \in 1..Len(lines) : lines[j] = <<>>
    /\ \E j \in 1..Len(lines) : LIST_LINE_RE(lines[j])

----------------------------------------------------------------------------
(* Quoting and code runs, lines 364-406.                                   *)

\* _to_blockquote with the marker left off blank lines
to_blockquote_skip_blank(t) ==
    LET ls == SplitLines(t) IN
    IF ls = <<>> THEN EmptyStr
    ELSE [k \in 1..Len(ls) |-> IF IsBlankLine(ls[k]) THEN ls[k] ELSE <<">", " ">> \o ls[k]]

\* _to_blockquote(s), line 373
to_blockquote(t) ==
    LET ls == SplitLines(t) IN
    IF ls = <<>> THEN EmptyStr ELSE [k \in 1..Len(ls) |-> <<">", " ">> \o ls[k]]

\* a str of one line
Str(ln) == <<ln>>

\* the values of lang for which line 395 opens an untagged fence
PlaceholderLangs == {EmptyStr, Str(<<"unknown">>), Str(<<"plain">>), Str(<<"text">>)}

\* _render_code_run without the fence of line 404 after the output
render_code_run_open_output(title, lang, code, output) ==
    LET title1 == Strip(OrEmpty(title))
        lang1 == Strip(OrEmpty(lang))
        fence_open == IF lang1 \notin PlaceholderLangs
                      THEN Cat(Str(<<Fence>>), lang1) ELSE Str(<<Fence>>)
        blocks == (IF title1 # EmptyStr
                   THEN << Cat(Cat(Str(<<"*", "*">>), title1), Str(<<"*", "*">>)) >>
                   ELSE <<>>)
                  \o << fence_open, RStripNL(OrEmpty(code)), Str(<<Fence>>) >>
                  \o (IF Truthy(output) /\ Strip(output) # EmptyStr
                      THEN << Str(<<Fence>>), StripNL(output) >>
                      ELSE <<>>)
    IN  to_blockquote(JoinNL(blocks))

\* _render_code_run(title, lang, code, output), lines 376-406; str.lower()
\* is the identity on the model's tokens
render_code_run(title, lang, code, output) ==
    LET title1 == Strip(OrEmpty(title))
        lang1 == Strip(OrEmpty(lang))
        fence_open == IF lang1 \notin PlaceholderLangs
                      THEN Cat(Str(<<Fence>>), lang1) ELSE Str(<<Fence>>)
        blocks == (IF title1 # EmptyStr
                   THEN << Cat(Cat(Str(<<"*", "*">>), title1), Str(<<"*", "*">>)) >>
                   ELSE <<>>)
                  \o << fence_open, RStripNL(OrEmpty(code)), Str(<<Fence>>) >>
                  \o (IF Truthy(output) /\ Strip(output) # EmptyStr
                      THEN << Str(<<Fence>>), StripNL(output), Str(<<Fence>>) >>
                      ELSE <<>>)
    IN  to_blockquote(JoinNL(blocks))

\* _html_escape(s), line 127, token by token
EscapeToken(c) ==
    CASE c = "&" -> "&amp;"
      [] c = "<" -> "&lt;"
      [] c = ">" -> "&gt;"
      [] c = "\"" -> "&quot;"
      [] OTHER -> c

html_escape(t) ==
    LET u == OrEmpty(t) IN
    [j \in 1..Len(u) |-> [k \in 1..Len(u[j]) |-> EscapeToken(u[j][k])]]

(* The two functions on their arguments. *)

\* the lines a code text or an output text is made of
QuoteLines == { <<>>, <<"x">>, <<" ", " ">>, <<Fence>> }

\* the code texts: one to MaxLines lines
QuoteTexts == UNION {[1..n -> QuoteLines] : n \in 1..MaxLines}

\* the output texts
QuoteOutputs ==
    { None, EmptyStr, Str(<<" ">>), Str(<<"o">>), <<<<"o">>, <<>>, <<"o">>>>,
      <<<<>>, <<" ", "o">>, <<>>>> }

InitQuote ==
    /\ qin \in [title : {EmptyStr, Str(<<" ">>), Str(<<"t">>)},
                lang : {EmptyStr, Str(<<"unknown">>), Str(<<" ", "py">>)},
                code : QuoteTexts,
                output : QuoteOutputs]
    /\ qout = <<>>
    /\ qpc = "start"
    /\ IdleBranch
    /\ IdleMath
    /\ IdleSession
    /\ IdleDriver

\* _to_blockquote(code)
CallQuote ==
    /\ qpc = "start"
    /\ qout' = to_blockquote(qin.code)
    /\ qpc' = "to_blockquote"
    /\ UNCHANGED qin
    /\ UNCHANGED notQuote

\* _render_code_run(title, lang, code, output)
CallRenderRun ==
    /\ qpc = "start"
    /\ qout' = render_code_run(qin.title, qin.lang, qin.code, qin.output)
    /\ qpc' = "render_code_run"
    /\ UNCHANGED qin
    /\ UNCHANGED notQuote

NextQuote == CallQuote \/ CallRenderRun

SpecQuote == InitQuote /\ [][NextQuote]_vars

(* Claims about quoting. *)

\* the line starts with the quote marker and one space
IsQuoted(ln) == Len(ln) >= 2 /\ ln[1] = ">" /\ ln[2] = " "

\* the line is a quoted fence marker
IsQuotedFence(ln) == Len(ln) >= 3 /\ IsQuoted(ln) /\ ln[3] = Fence

\* C14: _to_blockquote gives back the lines of its input, each with the
\* quote marker and one space before it, blank lines included, as many and in
\* the same order; every line of a rendered code run starts with the quote
\* marker, its fence markers and the blank lines of its code and output
\* included, so no line of it is a bare blank line.
C14_EveryLineQuoted ==
    /\ qpc = "to_blockquote" =>
        LET src == SplitLines(qin.code)
            res == SplitLines(qout)
        IN  /\ Len(res) = Len(src)
            /\ \A j \in 1..Len(src) : res[j] = <<">", " ">> \o src[j]
    /\ qpc = "render_code_run" =>
        /\ \A j \in 1..Len(qout) : IsQuoted(qout[j]) /\ ~IsBlankLine(qout[j])
        /\ IsQuotedFence(qout[Len(qout)])
        /\ Cardinality({j \in 1..Len(qout) : qout[j] = <<">", " ", Fence>>}) >= 1

\* a rendered code run whose code and whose output hold a blank line between
\* other lines
C14_Witness ==
    /\ qpc = "render_code_run"
    /\ Len(qin.code) >= 3
    /\ qin.code[1] = <<"x">> /\ qin.code[2] = <<>> /\ qin.code[3] = <<"x">>
    /\ qin.output = <<<<"o">>, <<>>, <<"o">>>>
    /\ \E j \in 1..Len(qout) : qout[j] = <<">", " ">>

\* the lines of the call's result that are fence markers
MarkerLines == {j \in 1..Len(qout) : IsQuotedFence(qout[j])}

\* the lines of a text that begin with the fence marker
FenceLinesOf(t) == {j \in 1..Len(t) : Len(t[j]) >= 1 /\ t[j][1] = Fence}

\* what the claim says of the result of _render_code_run: the title line,
\* the opening fence, the code, the closing fence, and the fence pair around
\* the output, each where it is due, all quoted
RunLayout ==
    LET title == Strip(OrEmpty(qin.title))
        lang == Strip(OrEmpty(qin.lang))
        body == RStripNL(OrEmpty(qin.code))
        has_out == qin.output # None /\ Strip(qin.output) # EmptyStr
        shown == IF has_out THEN StripNL(qin.output) ELSE <<>>
        t0 == IF title # EmptyStr THEN 1 ELSE 0
        c0 == t0 + 1
        e0 == c0 + Len(body) + 1
    IN  /\ Len(qout) = e0 + (IF has_out THEN Len(shown) + 2 ELSE 0)
        /\ t0 = 1 => qout[1] = <<">", " ", "*", "*">> \o title[1] \o <<"*", "*">>
        /\ qout[c0] = (IF lang \in {EmptyStr, Str(<<"unknown">>), Str(<<"plain">>),
                                     Str(<<"text">>)}
                       THEN <<">", " ", Fence>>
                       ELSE <<">", " ", Fence>> \o lang[1])
        /\ \A k \in 1..Len(body) : qout[c0 + k] = <<">", " ">> \o body[k]
        /\ qout[e0] = <<">", " ", Fence>>
        /\ has_out =>
            /\ qout[e0 + 1] = <<">", " ", Fence>>
            /\ \A k \in 1..Len(shown) : qout[e0 + 1 + k] = <<">", " ">> \o shown[k]
            /\ qout[e0 + 2 + Len(shown)] = <<">", " ", Fence>>

\* C24, as stated: the result of _render_code_run has that layout, and the
\* number of its fence-marker lines is 2 or 4.
C24_Original ==
    qpc = "render_code_run" =>
        /\ RunLayout
        /\ Cardinality(MarkerLines) \in {2, 4}

\* C24, amended: the result of _render_code_run has that layout (title, lang
\* and output being tested after trimming); the fence markers it puts around
\* the code and the output are 2 or 4, and the fence-marker lines of the
\* result are those and the lines of the code and of the shown output that
\* begin with a fence marker themselves: 2 or 4 when there is no such line.
C24_RunLayout ==
    qpc = "render_code_run" =>
        LET has_out == qin.output # None /\ Strip(qin.output) # EmptyStr
            own == Cardinality(FenceLinesOf(RStripNL(OrEmpty(qin.code))))
                    + (IF has_out THEN Cardinality(FenceLinesOf(StripNL(qin.output)))
                       ELSE 0)
        IN  /\ RunLayout
            /\ Cardinality(MarkerLines) = (IF has_out THEN 4 ELSE 2) + own
            /\ own = 0 => Cardinality(MarkerLines) \in {2, 4}

\* a run with a title, a tagged fence, code of three lines none of which is a
\* fence marker, and an output of three lines: four fence-marker lines
C24_Witness ==
    /\ qpc = "render_code_run"
    /\ qin.title = Str(<<"t">>)
    /\ qin.lang = Str(<<" ", "py">>)
    /\ Len(qin.code) = 3
    /\ FenceLinesOf(qin.code) = {}
    /\ qin.output = <<<<"o">>, <<>>, <<"o">>>>
    /\ Cardinality(MarkerLines) = 4
    /\ qout[2] = <<">", " ", Fence, "py">>

----------------------------------------------------------------------------
(* ReasoningSession, lines 412-554.                                        *)

\* None, where a float may be absent
NoTime == -1

\* (time or 0.0), lines 437 and 498
TimeKey(t) == IF t = NoTime THEN 0 ELSE t

\* _SessionItem(...) with __post_init__, lines 413-437
SessionItem(type, time, seq, summary, content, title, lang, code, output, code_time) ==
    [type |-> type, time |-> time, seq |-> seq, summary |-> summary,
     content |-> content, title |-> title, lang |-> lang, code |-> code,
     output |-> output, code_time |-> code_time,
     sort_index |-> <<TimeKey(time), seq>>]

\* ReasoningSession(), lines 444-447
NewSession == [items |-> <<>>, recap_text |-> None, seq |-> 0]

\* add_thoughts without the test of line 461: an entry of two empty texts is
\* appended too
RECURSIVE add_thoughts_keep_empty(_, _, _)
add_thoughts_keep_empty(s, msg_time, thought_list) ==
    IF thought_list = <<>> THEN s
    ELSE LET t == thought_list[1]
             summ == Strip(OrEmpty(t.summary))
             cont == Strip(OrEmpty(t.content))
             s1 == IF ~t.is_dict THEN s
                   ELSE [s EXCEPT
                           !.items = Append(@, SessionItem("thought", msg_time, s.seq,
                                       summ, cont, EmptyStr, EmptyStr, EmptyStr,
                                       None, NoTime)),
                           !.seq = @ + 1]
         IN  add_thoughts_keep_empty(s1, msg_time, Tail(thought_list))

\* add_thoughts(msg_time, thought_list), lines 449-470; an entry is
\* [is_dict, summary, content]
RECURSIVE add_thoughts(_, _, _)
add_thoughts(s, msg_time, thought_list) ==
    IF thought_list = <<>> THEN s
    ELSE LET t == thought_list[1]
             summ == Strip(OrEmpty(t.summary))
             cont == Strip(OrEmpty(t.content))
             s1 == IF ~t.is_dict \/ (summ = EmptyStr /\ cont = EmptyStr) THEN s
                   ELSE [s EXCEPT
                           !.items = Append(@, SessionItem("thought", msg_time, s.seq,
                                       summ, cont, EmptyStr, EmptyStr, EmptyStr,
                                       None, NoTime)),
                           !.seq = @ + 1]
         IN  add_thoughts(s1, msg_time, Tail(thought_list))

\* add_code without the increment of line 487
add_code_no_increment(s, msg_time, title, lang, code_text) ==
    [s EXCEPT
        !.items = Append(@, SessionItem("code", msg_time, s.seq, EmptyStr, EmptyStr,
                    OrEmpty(title), Strip(OrEmpty(lang)), OrEmpty(code_text),
                    None, msg_time))]

\* add_code(msg_time, title, lang, code_text), lines 472-487
add_code(s, msg_time, title, lang, code_text) ==
    [s EXCEPT
        !.items = Append(@, SessionItem("code", msg_time, s.seq, EmptyStr, EmptyStr,
                    OrEmpty(title), Strip(OrEmpty(lang)), OrEmpty(code_text),
                    None, msg_time)),
        !.seq = @ + 1]

\* the test of line 495
Unpaired(it) == it.type = "code" /\ it.output \in {None, EmptyStr}

\* pair_code_output with the test of line 495 reading: a code item
pair_code_output_newest(s, output_time, output_text) ==
    LET hits == {k \in 1..Len(s.items) : s.items[k].type = "code"} IN
    IF hits = {} THEN s
    ELSE LET k == Max(hits)
             time == IF output_time # NoTime THEN output_time
                     ELSE s.items[k].code_time
         IN  [s EXCEPT !.items[k].output = OrEmpty(output_text),
                       !.items[k].time = time,
                       !.items[k].sort_index = <<TimeKey(time), s.items[k].seq>>]

\* pair_code_output attaching to the oldest unpaired code item
pair_code_output_oldest(s, output_time, output_text) ==
    LET hits == {k \in 1..Len(s.items) : Unpaired(s.items[k])} IN
    IF hits = {} THEN s
    ELSE LET k == Min(hits)
             time == IF output_time # NoTime THEN output_time
                     ELSE s.items[k].code_time
         IN  [s EXCEPT !.items[k].output = OrEmpty(output_text),
                       !.items[k].time = time,
                       !.items[k].sort_index = <<TimeKey(time), s.items[k].seq>>]

\* pair_code_output(output_time, output_text), lines 489-499
pair_code_output(s, output_time, output_text) ==
    LET hits == {k \in 1..Len(s.items) : Unpaired(s.items[k])} IN
    IF hits = {} THEN s
    ELSE LET k == Max(hits)
             time == IF output_time # NoTime THEN output_time
                     ELSE s.items[k].code_time
         IN  [s EXCEPT !.items[k].output = OrEmpty(output_text),
                       !.items[k].time = time,
                       !.items[k].sort_index = <<TimeKey(time), s.items[k].seq>>]

\* set_recap that adds the text to the label already stored
set_recap_add(s, recap_text) ==
    [s EXCEPT !.recap_text = Cat(OrEmpty(s.recap_text), Strip(OrEmpty(recap_text)))]

\* set_recap(recap_text), lines 501-503
set_recap(s, recap_text) == [s EXCEPT !.recap_text = Strip(OrEmpty(recap_text))]

\* is_empty() with the recap left out of the test
is_empty_items_only(s) == s.items = <<>>

\* is_empty(), lines 505-506
is_empty(s) == s.items = <<>> /\ ~Truthy(s.recap_text)

\* a < b on the tuples of sort_index
KeyLess(a, b) == a[1] < b[1] \/ (a[1] = b[1] /\ a[2] < b[2])

RECURSIVE InsertSorted(_, _)
InsertSorted(x, srt) ==
    IF srt = <<>> THEN <<x>>
    ELSE IF KeyLess(x.sort_index, srt[1].sort_index) THEN <<x>> \o srt
    ELSE <<srt[1]>> \o InsertSorted(x, Tail(srt))

\* sorted(items) in insertion order
UnsortedItems(its) == its

\* sorted(self.items), line 518: stable, by sort_index
RECURSIVE SortedItems(_)
SortedItems(its) ==
    IF its = <<>> THEN <<>>
    ELSE InsertSorted(its[Len(its)], SortedItems(SubSeq(its, 1, Len(its) - 1)))

\* RenderItem with the code and the output of a code item beautified too
RenderItemBeautifyCode(it) ==
    IF it.type = "thought"
    THEN LET block_lines ==
                 (IF it.summary # EmptyStr
                  THEN << Cat(Cat(Str(<<">", " ", "*", "*">>), it.summary),
                              Str(<<"*", "*">>)) >>
                  ELSE <<>>)
                 \o (IF it.content # EmptyStr
                     THEN << to_blockquote(beautify_markdown(it.content)) >>
                     ELSE <<>>)
         IN  IF block_lines # <<>> THEN << RStrip(JoinNL(block_lines)) >> ELSE <<>>
    ELSE LET title == IF it.title # EmptyStr THEN it.title
                      ELSE Str(<<"[code reasoning]">>)
         IN  << render_code_run(title, OrEmpty(it.lang),
                                beautify_markdown(OrEmpty(it.code)),
                                beautify_markdown(OrEmpty(it.output))) >>

\* lines 522-537: what one item adds to parts
RenderItem(it) ==
    IF it.type = "thought"
    THEN LET block_lines ==
                 (IF it.summary # EmptyStr
                  THEN << Cat(Cat(Str(<<">", " ", "*", "*">>), it.summary),
                              Str(<<"*", "*">>)) >>
                  ELSE <<>>)
                 \o (IF it.content # EmptyStr
                     THEN << to_blockquote(beautify_markdown(it.content)) >>
                     ELSE <<>>)
         IN  IF block_lines # <<>> THEN << RStrip(JoinNL(block_lines)) >> ELSE <<>>
    ELSE LET title == IF it.title # EmptyStr THEN it.title
                      ELSE Str(<<"[code reasoning]">>)
         IN  << render_code_run(title, OrEmpty(it.lang), OrEmpty(it.code),
                                OrEmpty(it.output)) >>

RECURSIVE RenderParts(_)
RenderParts(its) ==
    IF its = <<>> THEN <<>> ELSE RenderItem(its[1]) \o RenderParts(Tail(its))

\* lines 539-549: the details block around the rendered parts
DetailsBlock(parts, recap_text, default_summary) ==
    LET inner == JoinNLNL(parts)
        summary_text == Cat(Str(<<"[think]", " ">>),
                            IF Truthy(recap_text) THEN recap_text ELSE default_summary)
    IN  Str(<<"<details>">>)
            \o Cat(Cat(Str(<<"<summary>">>), html_escape(summary_text)),
                   Str(<<"</summary>">>))
            \o << <<>> >> \o inner \o << <<>> >> \o Str(<<"</details>">>)

\* build_details_block with the recap kept across the flush
build_details_block_keep_recap(s, default_summary) ==
    IF s.items = <<>> /\ ~Truthy(s.recap_text)
    THEN [block |-> None, session |-> s]
    ELSE [block |-> DetailsBlock(RenderParts(SortedItems(s.items)), s.recap_text,
                                 default_summary),
          session |-> [items |-> <<>>, recap_text |-> s.recap_text, seq |-> 0]]

\* build_details_block(default_summary), lines 508-554: the block returned
\* and the session left
build_details_block(s, default_summary) ==
    IF s.items = <<>> /\ ~Truthy(s.recap_text)
    THEN [block |-> None, session |-> s]
    ELSE [block |-> DetailsBlock(RenderParts(SortedItems(s.items)), s.recap_text,
                                 default_summary),
          session |-> [items |-> <<>>, recap_text |-> None, seq |-> 0]]

\* default_summary of lines 739 and 759
DefaultLabel == Str(<<"[thinking]">>)

(* The session under every order of calls. *)

MaxItems == 2

\* create_time: absent, or a time stamp
Times == {NoTime, 0, 1}

\* the entries of a thoughts message: one that line 461 discards, one kept
SkippedEntry == [is_dict |-> TRUE, summary |-> None, content |-> Str(<<" ">>)]

KeptEntry == [is_dict |-> TRUE, summary |-> Str(<<"s">>), content |-> Str(<<"c">>)]

ThoughtLists == { <<>>, <<KeptEntry>>, <<SkippedEntry, KeptEntry>>, <<KeptEntry, KeptEntry>> }

\* the text of an execution output: empty, or some text
OutputTexts == {EmptyStr, Str(<<"o">>)}

\* the content of a recap message: missing, or a label
RecapTexts == {None, Str(<<" ", "r", "1">>)}

InitSession ==
    /\ session = NewSession
    /\ block = None
    /\ found = <<>>
    /\ fresh = <<>>
    /\ fresh_block = <<>>
    /\ IdleBranch
    /\ IdleMath
    /\ IdleDriver
    /\ IdleQuote

\* a call that returns nothing: it leaves the session as s1 and its twin,
\* if there is one, as f1
Called(s1, f1) ==
    /\ session' = s1
    /\ block' = None
    /\ found' = <<>>
    /\ fresh' = IF fresh = <<>> THEN <<>> ELSE <<f1>>
    /\ fresh_block' = <<>>
    /\ UNCHANGED notSession

\* the twin, or a new session where there is none
TwinOf(f) == IF f = <<>> THEN NewSession ELSE f[1]

CallAddThoughts(TS) ==
    \E t \in TS, tl \in ThoughtLists :
        /\ Len(session.items) + Len(tl) <= MaxItems
        /\ Called(add_thoughts(session, t, tl), add_thoughts(TwinOf(fresh), t, tl))

CallAddCode(TS) ==
    \E t \in TS :
        /\ Len(session.items) < MaxItems
        /\ Called(add_code(session, t, None, Str(<<"py">>), Str(<<"x">>)),
                  add_code(TwinOf(fresh), t, None, Str(<<"py">>), Str(<<"x">>)))

CallPairOutput(TS) ==
    \E t \in TS, text \in OutputTexts :
        Called(pair_code_output(session, t, text),
               pair_code_output(TwinOf(fresh), t, text))

CallSetRecap ==
    \E text \in RecapTexts :
        Called(set_recap(session, text), set_recap(TwinOf(fresh), text))

\* flush. With twin, a twin is created at the first flush that returns a
\* block, and created anew at every flush after it.
CallFlush(twin) ==
    LET r == build_details_block(session, DefaultLabel) IN
    /\ session' = r.session
    /\ block' = r.block
    /\ found' = <<session>>
    /\ fresh_block' = IF fresh = <<>> THEN <<>>
                      ELSE <<build_details_block(fresh[1], DefaultLabel).block>>
    /\ fresh' = IF twin /\ (r.block # None \/ fresh # <<>>) THEN <<NewSession>>
                ELSE <<>>
    /\ UNCHANGED notSession

NextSession ==
    \/ CallAddThoughts(Times)
    \/ CallAddCode(Times)
    \/ CallPairOutput(Times)
    \/ CallSetRecap
    \/ CallFlush(FALSE)

SpecSession == InitSession /\ [][NextSession]_vars

\* the same calls, each flush followed by a twin session that starts new
TwinTimes == {NoTime, 1}

NextFlush ==
    \/ CallAddThoughts(TwinTimes)
    \/ CallAddCode(TwinTimes)
    \/ CallPairOutput(TwinTimes)
    \/ CallSetRecap
    \/ CallFlush(TRUE)

SpecFlush == InitSession /\ [][NextFlush]_vars

(* The session with room for the thoughts of one message and one more item. *)

ThoughtCap == MaxItems + 1

\* entries of a thoughts message: summary and content, content alone, an
\* entry that is no dict
EntryA == [is_dict |-> TRUE, summary |-> Str(<<" ", "a">>), content |-> Str(<<"c">>)]

EntryB == [is_dict |-> TRUE, summary |-> None, content |-> Str(<<"b">>)]

NotDictEntry == [is_dict |-> FALSE, summary |-> None, content |-> None]

\* the thoughts arrays of a message
MessageThoughts ==
    { <<EntryA, EntryB>>, <<EntryA, SkippedEntry, EntryB>>, <<NotDictEntry, EntryB>>,
      <<SkippedEntry>> }

ThAddThoughts ==
    \E t \in TwinTimes, tl \in MessageThoughts :
        /\ Len(session.items) + Len(tl) <= ThoughtCap
        /\ Called(add_thoughts(session, t, tl), NewSession)

ThAddCode ==
    \E t \in TwinTimes :
        /\ Len(session.items) < ThoughtCap
        /\ Called(add_code(session, t, None, Str(<<"py">>), Str(<<"x">>)), NewSession)

NextThoughts ==
    \/ ThAddThoughts
    \/ ThAddCode
    \/ CallPairOutput(TwinTimes)
    \/ CallFlush(FALSE)

SpecThoughts == InitSession /\ [][NextThoughts]_vars

(* Claims about the session. *)

\* the transition is a call pair_code_output(t, text)
IsPairCall(t, text) ==
    /\ session' = pair_code_output(session, t, text)
    /\ block' = None
    /\ found' = <<>>

\* the code items of s that line 495 takes for unpaired
UnpairedIn(s) == {k \in 1..Len(s.items) : Unpaired(s.items[k])}

\* C3, as stated: a code item that a pair_output call has given an output,
\* whatever its text, is not changed by a later pair_output call.
C3_Original ==
    [][\A t \in Times, text \in OutputTexts :
         IsPairCall(t, text) =>
            \A k \in 1..Len(session.items) :
                (session.items[k].type = "code" /\ session.items[k].output # None)
                    => session'.items[k] = session.items[k]]_vars

\* C3, amended: a code item that holds a non-empty output is not changed by a
\* later pair_output call; the call attaches to the most recent code item
\* whose output is unset or empty, and is dropped if there is none.
C3_PairedItemsKept ==
    [][\A t \in Times, text \in OutputTexts :
         IsPairCall(t, text) =>
            /\ \A k \in 1..Len(session.items) :
                (session.items[k].type = "code" /\ Truthy(session.items[k].output))
                    => session'.items[k] = session.items[k]
            /\ IF UnpairedIn(session) = {} THEN session' = session
               ELSE session'.items[Max(UnpairedIn(session))].output = text]_vars

\* two code items, each holding a non-empty output: the second pairing went
\* to the older one
C3_Witness ==
    /\ found = <<>>
    /\ Len(session.items) = 2
    /\ \A k \in 1..2 : session.items[k].type = "code" /\ Truthy(session.items[k].output)

\* what a call pair_code_output(t, text) that attaches to item k does
AttachesTo(k, t, text) ==
    LET old == session.items[k]
        new == session'.items[k]
    IN  /\ Len(session'.items) = Len(session.items)
        /\ new.output = text
        /\ new.time = IF t # NoTime THEN t ELSE old.code_time
        /\ \A f \in {"type", "seq", "summary", "content", "title", "lang",
                     "code", "code_time"} : new[f] = old[f]
        /\ \A j \in 1..Len(session.items) :
               j # k => session'.items[j] = session.items[j]
        /\ session'.recap_text = session.recap_text
        /\ session'.seq = session.seq

RendersBefore(a, b) ==
    \/ TimeKey(a.time) < TimeKey(b.time)
    \/ TimeKey(a.time) = TimeKey(b.time) /\ a.seq < b.seq

\* the items in the order of RendersBefore
ByKey(its) ==
    [r \in 1..Len(its) |->
        its[CHOOSE k \in 1..Len(its) :
                Cardinality({j \in 1..Len(its) : RendersBefore(its[j], its[k])}) = r - 1]]

\* C6: the block a flush returns holds the items in ascending order of
\* (time, seq), an absent time counting as 0 and time being the item's
\* current time (the output time of a paired code item).
C6_FlushOrder ==
    (found # <<>> /\ block # None) =>
        block = DetailsBlock(RenderParts(ByKey(found[1].items)), found[1].recap_text,
                             DefaultLabel)

\* a flush of a session in which a code item, paired at a time before that
\* of an item added before it, renders first
C6_Witness ==
    /\ found # <<>> /\ block # None
    /\ Len(found[1].items) = 2
    /\ found[1].items[2].type = "code"
    /\ found[1].items[2].time # found[1].items[2].code_time
    /\ RendersBefore(found[1].items[2], found[1].items[1])

\* C7: after a flush the session is empty (no items, no recap text: None, or
\* the empty text a flush that returned nothing left in place; counter 0),
\* and the block a flush returns is the one a session created at the flush
\* before it returns for the calls made since.
C7_FlushResets ==
    found # <<>> =>
        /\ is_empty(session)
        /\ session.items = <<>>
        /\ ~Truthy(session.recap_text)
        /\ session.seq = 0
        /\ fresh_block # <<>> => block = fresh_block[1]

\* a flush that returns a block with items, after an earlier flush returned one
C7_Witness ==
    /\ found # <<>> /\ fresh_block # <<>>
    /\ block # None
    /\ found[1].items # <<>>

\* the session holds a recap: a label of at least one character
HoldsRecap(s) == s.recap_text # None /\ s.recap_text # EmptyStr

\* C17: is_empty() is true exactly when the session has no items and no
\* recap; a flush returns nothing exactly when is_empty() was true of the
\* session it found, and then leaves the session as it was; a session with a
\* recap and no items is not empty and its flush returns a block.
C17_EmptyExactly ==
    /\ is_empty(session) <=> (Len(session.items) = 0 /\ ~HoldsRecap(session))
    /\ found # <<>> =>
        /\ block = None <=> is_empty(found[1])
        /\ block = None => session = found[1]
        /\ (found[1].items = <<>> /\ HoldsRecap(found[1])) =>
            (~is_empty(found[1]) /\ block # None)

\* a flush of a session that held a recap and no item
C17_Witness ==
    /\ found # <<>>
    /\ found[1].items = <<>>
    /\ HoldsRecap(found[1])
    /\ block # None
    /\ session = NewSession

\* the transition is a call set_recap(text)
IsSetRecapCall(text) ==
    /\ session' = set_recap(session, text)
    /\ block' = None
    /\ found' = <<>>

\* the summary line of a details block whose header is label
SummaryLine(label) ==
    <<"<summary>", "[think]", " ">> \o html_escape(label)[1] \o <<"</summary>">>

\* C18, as stated: a set_recap call leaves items and counter alone and
\* overwrites the label, no other call but a flush touches the label, and a
\* flush after one or more set_recap calls shows the text of the last of
\* them as the header.
C18_Original ==
    /\ [][\A text \in RecapTexts :
            IsSetRecapCall(text) =>
                /\ session'.items = session.items
                /\ session'.seq = session.seq
                /\ session'.recap_text = Strip(OrEmpty(text))]_vars
    /\ [][(found' = <<>> /\ session'.recap_text # session.recap_text) =>
            \E text \in RecapTexts : IsSetRecapCall(text)]_vars
    /\ []((found # <<>> /\ block # None /\ found[1].recap_text # None) =>
            block[2] = SummaryLine(found[1].recap_text))

\* C18, amended: a set_recap call leaves the items (their number, order,
\* times and sort keys) and the counter alone and overwrites the label,
\* whatever it was, with the text of the call stripped of surrounding
\* whitespace (the empty text for a missing one); the calls that are
\* neither set_recap nor a flush leave the label alone; and the header a
\* flush shows is the stored label, that is the stripped text of the last
\* set_recap call, when that is not empty, and the default label when it is
\* empty or no call was made.
C18_SetRecapOnlyLabel ==
    /\ [][\A text \in RecapTexts :
            IsSetRecapCall(text) =>
                /\ session'.items = session.items
                /\ session'.seq = session.seq
                /\ session'.recap_text = Strip(OrEmpty(text))]_vars
    /\ [][(found' = <<>> /\ session'.recap_text # session.recap_text) =>
            \E text \in RecapTexts : IsSetRecapCall(text)]_vars
    /\ []((found # <<>> /\ block # None) =>
            block[2] = SummaryLine(IF found[1].recap_text \notin {None, EmptyStr}
                                   THEN found[1].recap_text ELSE DefaultLabel))

\* a flush of a session with an item whose label was overwritten by a call
\* without text: the header is the default label
C18_Witness ==
    /\ found # <<>>
    /\ found[1].items # <<>>
    /\ found[1].recap_text = EmptyStr
    /\ block # None
    /\ block[2] = SummaryLine(DefaultLabel)

\* the seq fields of the items, in list order
SeqsOf(s) == [k \in 1..Len(s.items) |-> s.items[k].seq]

\* C19: in every state of the session the i-th item (from 0) has seq i and
\* the counter is the number of items; every item's sort key is its time (0
\* where absent) and its seq; of two different items exactly one sorts
\* before the other, so sorted(items) is the one list of the items in which
\* each sorts before the next; and a pair_code_output call leaves every seq
\* as it was.
C19_SeqIsPosition ==
    /\ [](LET its == session.items
              srt == SortedItems(its)
          IN  /\ session.seq = Len(its)
              /\ \A k \in 1..Len(its) :
                    /\ its[k].seq = k - 1
                    /\ its[k].sort_index = <<TimeKey(its[k].time), its[k].seq>>
              /\ \A j, k \in 1..Len(its) :
                    j # k => (KeyLess(its[j].sort_index, its[k].sort_index)
                                <=> ~KeyLess(its[k].sort_index, its[j].sort_index))
              /\ Len(srt) = Len(its)
              /\ {srt[k] : k \in 1..Len(srt)} = {its[k] : k \in 1..Len(its)}
              /\ \A k \in 1..(Len(srt) - 1) :
                    KeyLess(srt[k].sort_index, srt[k + 1].sort_index))
    /\ [][\A t \in Times, text \in OutputTexts :
            IsPairCall(t, text) => SeqsOf(session') = SeqsOf(session)]_vars

\* two items of equal time key, one without a time, the newer one a code item
\* that a pair_code_output call gave its output
C19_Witness ==
    /\ Len(session.items) = 2
    /\ session.items[1].time = 0
    /\ session.items[2].time = NoTime
    /\ session.items[2].type = "code"
    /\ Truthy(session.items[2].output)
    /\ session.seq = 2

\* the transition is a call add_thoughts(t, tl): a call that returns nothing
\* and leaves the session as add_thoughts does (the items after the old ones
\* are looked at first, which settles most transitions)
IsAddThoughtsCall(t, tl) ==
    /\ block' = None
    /\ found' = <<>>
    /\ Len(session'.items) >= Len(session.items)
    /\ \A k \in (Len(session.items) + 1)..Len(session'.items) :
            session'.items[k].type = "thought" /\ session'.items[k].time = t
    /\ SubSeq(session'.items, 1, Len(session.items)) = session.items
    /\ session' = add_thoughts(session, t, tl)

\* the entry is a dict with a summary or a content that is not empty once
\* stripped
HasText(e) ==
    e.is_dict /\ (Strip(OrEmpty(e.summary)) # EmptyStr \/ Strip(OrEmpty(e.content)) # EmptyStr)

\* the place of the item with this seq in the order of the flush
PlaceOf(srt, q) == CHOOSE k \in 1..Len(srt) : srt[k].seq = q

\* C20: add_thoughts appends one thought item for each entry with a summary
\* or a content that is not empty, in entry order, and none for another
\* entry; the items of one call carry the time of the message and the next
\* sequence numbers one after the other; no later call but a flush changes
\* or moves a thought item; and in every flush thought items added one
\* right after the other with the same time are rendered one right after
\* the other, in that order.
C20_ThoughtsContiguous ==
    /\ [][\A t \in TwinTimes, tl \in MessageThoughts :
            IsAddThoughtsCall(t, tl) =>
                LET kept == SelectSeq(tl, HasText)
                    new == SubSeq(session'.items, Len(session.items) + 1,
                                  Len(session'.items))
                IN  /\ SubSeq(session'.items, 1, Len(session.items)) = session.items
                    /\ Len(new) = Len(kept)
                    /\ session'.seq = session.seq + Len(kept)
                    /\ \A k \in 1..Len(kept) :
                        /\ new[k].type = "thought"
                        /\ new[k].time = t
                        /\ new[k].seq = session.seq + k - 1
                        /\ new[k].summary = Strip(OrEmpty(kept[k].summary))
                        /\ new[k].content = Strip(OrEmpty(kept[k].content))]_vars
    /\ [][found' = <<>> =>
            \A k \in 1..Len(session.items) :
                session.items[k].type = "thought" =>
                    (Len(session'.items) >= k /\ session'.items[k] = session.items[k])]_vars
    /\ []((found # <<>> /\ block # None) =>
            LET its == found[1].items
                srt == SortedItems(its)
            IN  /\ block = DetailsBlock(RenderParts(srt), found[1].recap_text, DefaultLabel)
                /\ \A k \in 1..(Len(its) - 1) :
                    (/\ its[k].type = "thought"
                     /\ its[k + 1].type = "thought"
                     /\ its[k].time = its[k + 1].time) =>
                        /\ srt[PlaceOf(srt, its[k].seq)] = its[k]
                        /\ PlaceOf(srt, its[k + 1].seq) = PlaceOf(srt, its[k].seq) + 1
                        /\ srt[PlaceOf(srt, its[k + 1].seq)] = its[k + 1])

\* a flush of the two thoughts of one message and a code item added after
\* them, paired, with the same time key
C20_Witness ==
    /\ found # <<>> /\ block # None
    /\ Len(found[1].items) = 3
    /\ found[1].items[1].type = "thought" /\ found[1].items[1].summary = Str(<<"a">>)
    /\ found[1].items[2].type = "thought" /\ found[1].items[2].content = Str(<<"b">>)
    /\ found[1].items[1].time = found[1].items[2].time
    /\ found[1].items[3].type = "code" /\ Truthy(found[1].items[3].output)
    /\ TimeKey(found[1].items[3].time) = TimeKey(found[1].items[1].time)

----------------------------------------------------------------------------
(* The node loop of parse_chat_to_markdown, lines 648-767.                 *)

\* the number of nodes of the branch
MaxNodes == 3

\* a text of one token that names the node it comes from
Tok(p, n) == p \o ToString(n)

\* str.lower() on the model's tokens
LowerToken(c) == IF c = "Python" THEN "python" ELSE c

Lower(t) == [j \in 1..Len(t) |-> [k \in 1..Len(t[j]) |-> LowerToken(t[j][k])]]

\* BLANK and TRIPLE_BLANK, lines 101-102
BLANK == <<" ", " ">>

TRIPLE_BLANK == <<BLANK, BLANK, BLANK>>

\* the marker format_time returns for an absent time, line 115
UnknownTime == "[unknown time]"

\* format_time(create_time), lines 109-120
format_time(t) == IF t = NoTime THEN Str(<<UnknownTime>>) ELSE Str(<<Tok("T", t)>>)

\* _extend_block(lines, block), lines 130-138
extend_block(ls, blk) == IF blk = None THEN ls ELSE ls \o SplitLines(blk)

\* _render_user_header(), _render_ai_header(), lines 560-565
render_user_header == <<"<h1 user>">>

render_ai_header == <<"<h1 ai>">>

\* _render_user_time_row(time_str), lines 568-579
render_user_time_row(time_str) ==
    LET ts == html_escape(IF Truthy(time_str) THEN time_str ELSE Str(<<UnknownTime>>)) IN
    << <<"<div row>">>, <<"    ", "<div time>">>,
       <<"        ", "[clock]", " ">> \o ts[1],
       <<"    ", "</div>">>, <<"</div>">> >>

\* _render_ai_meta_row(model_slug, time_str), lines 582-597
render_ai_meta_row(model_slug, time_str) ==
    LET ms == html_escape(IF Truthy(model_slug) THEN model_slug
                          ELSE Str(<<"unknown-model">>))
        ts == html_escape(IF Truthy(time_str) THEN time_str ELSE Str(<<UnknownTime>>))
    IN  << <<"<div row>">>, <<"    ", "<div badge>">>,
           <<"        ">> \o ms[1],
           <<"    ", "</div>">>, <<"    ", "<div time>">>,
           <<"        ", "[clock]", " ">> \o ts[1],
           <<"    ", "</div>">>, <<"</div>">> >>

\* str(data.get("default_model_slug") or "unknown-model"), line 629, of an
\* export that names no default model
conversation_default_model == Str(<<"unknown-model">>)

\* _get_model_slug_for_message(msg, conversation_default), lines 600-610
get_model_slug(msg, conversation_default) ==
    IF Truthy(msg.model_slug) THEN msg.model_slug
    ELSE IF Truthy(conversation_default) THEN conversation_default
    ELSE Str(<<"unknown-model">>)

\* ALLOWED_CONTENT_TYPES, line 615
ALLOWED_CONTENT_TYPES == {"text", "multimodal_text"}

\* a message with every field the loop reads absent
NoMsg ==
    [role |-> "", name |-> None, ctype |-> "", create_time |-> NoTime,
     thoughts |-> <<>>, content |-> None, text |-> None, language |-> None,
     recipient |-> None, reasoning_title |-> None, parts |-> <<>>,
     model_slug |-> None]

\* the messages node n of the branch may hold
ThoughtMsgs(n) ==
    { [NoMsg EXCEPT !.role = "assistant", !.ctype = "thoughts", !.create_time = t,
                    !.thoughts = << [is_dict |-> TRUE, summary |-> Str(<<"s">>),
                                     content |-> Str(<<Tok("t", n)>>)] >>]
        : t \in {NoTime, n} }
    \cup { [NoMsg EXCEPT !.role = "assistant", !.ctype = "thoughts", !.create_time = n,
                         !.thoughts = <<SkippedEntry>>] }

RecapMsgs(n) ==
    { [NoMsg EXCEPT !.role = "assistant", !.ctype = "reasoning_recap",
                    !.create_time = n, !.content = c]
        : c \in {Str(<<" ", Tok("r", n)>>), EmptyStr} }

CodeMsgs(n) ==
    { [NoMsg EXCEPT !.role = "assistant", !.ctype = "code", !.create_time = n,
                    !.text = Str(<<Tok("c", n)>>), !.language = Str(<<"unknown">>),
                    !.recipient = Str(<<"Python">>)],
      [NoMsg EXCEPT !.role = "assistant", !.ctype = "code", !.create_time = NoTime,
                    !.text = Str(<<Tok("c", n)>>), !.language = Str(<<"py">>),
                    !.reasoning_title = Str(<<"title">>)] }

ToolMsgs(n) ==
    { [NoMsg EXCEPT !.role = "tool", !.name = Str(<<"Python">>),
                    !.ctype = "execution_output", !.create_time = n, !.text = x]
        : x \in {Str(<<Tok("o", n)>>), EmptyStr} }
    \cup { [NoMsg EXCEPT !.role = "tool", !.name = Str(<<"browser">>),
                         !.ctype = "execution_output", !.create_time = n,
                         !.text = Str(<<Tok("o", n)>>)] }

UserMsgs(n) ==
    { [NoMsg EXCEPT !.role = "user", !.ctype = "text", !.create_time = n,
                    !.parts = << Str(<<Tok("u", n)>>) >>] }

AssistantMsgs(n) ==
    { [NoMsg EXCEPT !.role = "assistant", !.ctype = "text", !.create_time = n,
                    !.parts = << Str(<<Tok("a", n)>>) >>,
                    !.model_slug = Str(<<"m">>)],
      [NoMsg EXCEPT !.role = "assistant", !.ctype = "multimodal_text",
                    !.parts = << Str(<<" ">>),
                                 <<<<DisplayOpen>>, <<Tok("a", n)>>, <<DisplayClose>>, <<>>>> >>],
      [NoMsg EXCEPT !.role = "assistant", !.ctype = "text", !.create_time = n,
                    !.parts = << Str(<<" ">>) >>] }

OtherMsgs(n) ==
    { [NoMsg EXCEPT !.role = "system", !.ctype = "text", !.create_time = n,
                    !.parts = << Str(<<Tok("a", n)>>) >>] }

Messages(n) ==
    ThoughtMsgs(n) \cup RecapMsgs(n) \cup CodeMsgs(n) \cup ToolMsgs(n)
        \cup UserMsgs(n) \cup AssistantMsgs(n) \cup OtherMsgs(n)

\* lines 674-679: the language of a code message
CodeLang(msg) ==
    LET lang == Lower(Strip(OrEmpty(msg.language)))
        recip == Lower(Strip(OrEmpty(msg.recipient)))
    IN  IF (lang = EmptyStr \/ lang \in {Str(<<"unknown">>), Str(<<"plain">>), Str(<<"text">>)})
            /\ recip = Str(<<"python">>)
        THEN Str(<<"python">>) ELSE lang

\* _render_message_parts_with_images(msg), lines 303-356, of parts that are
\* all strings
RECURSIVE RenderedParts(_)
RenderedParts(parts) ==
    IF parts = <<>> THEN <<>>
    ELSE (IF Strip(parts[1]) # EmptyStr THEN <<parts[1]>> ELSE <<>>)
            \o RenderedParts(Tail(parts))

\* raw_text of line 705, of parts without carriage returns
RawText(msg) == Strip(JoinNL(RenderedParts(msg.parts)))

\* the node is one the loop emits a message for, lines 693-706
IsFinalText(msg) ==
    /\ msg.ctype \notin {"thoughts", "reasoning_recap"}
    /\ msg.role \in {"user", "assistant"}
    /\ ~(msg.role = "assistant" /\ msg.ctype = "code")
    /\ msg.ctype \in ALLOWED_CONTENT_TYPES
    /\ RenderedParts(msg.parts) # <<>>
    /\ RawText(msg) # EmptyStr

\* the user message put before the document instead of after it
UserBlockInFront(ol, msg) ==
    LET l1 == <<render_user_header>>
        l2 == extend_block(l1, render_user_time_row(format_time(msg.create_time)))
        l3 == Append(l2, BLANK)
        l4 == extend_block(l3, beautify_markdown(RawText(msg)))
    IN  l4 \o TRIPLE_BLANK \o ol

\* lines 710-725: the document after a user message
UserBlock(ol, msg) ==
    LET l1 == Append(ol, render_user_header)
        l2 == extend_block(l1, render_user_time_row(format_time(msg.create_time)))
        l3 == Append(l2, BLANK)
        l4 == extend_block(l3, beautify_markdown(RawText(msg)))
    IN  l4 \o TRIPLE_BLANK

\* the assistant message without the separator of line 749
AssistantBlockNoBlank(ol, msg, details_block) ==
    LET l1 == Append(ol, render_ai_header)
        l2 == extend_block(l1, render_ai_meta_row(
                                   get_model_slug(msg, conversation_default_model),
                                   format_time(msg.create_time)))
        l3 == IF Truthy(details_block) THEN extend_block(l2, details_block) ELSE l2
        l5 == extend_block(l3, beautify_markdown(RawText(msg)))
    IN  l5 \o TRIPLE_BLANK

\* lines 730-755: the document after an assistant message, details_block
\* being what the flush of line 739 returned, or None
AssistantBlock(ol, msg, details_block) ==
    LET l1 == Append(ol, render_ai_header)
        l2 == extend_block(l1, render_ai_meta_row(
                                   get_model_slug(msg, conversation_default_model),
                                   format_time(msg.create_time)))
        l3 == IF Truthy(details_block) THEN extend_block(l2, details_block) ELSE l2
        l4 == Append(l3, BLANK)
        l5 == extend_block(l4, beautify_markdown(RawText(msg)))
    IN  l5 \o TRIPLE_BLANK

\* lines 758-764: the document after the trailing block
TrailingBlock(ol, details_block) ==
    LET l1 == Append(ol, render_ai_header)
        l2 == extend_block(l1, render_ai_meta_row(conversation_default_model,
                                                  Str(<<UnknownTime>>)))
        l3 == extend_block(l2, OrEmpty(details_block))
        l4 == Append(l3, BLANK)
    IN  l4 \o TRIPLE_BLANK

\* NodeIter with the session flushed at a user message too
NodeIterUserFlush(s, ol, msg) ==
    IF msg.ctype = "thoughts"
    THEN [session |-> add_thoughts(s, msg.create_time, msg.thoughts), out_lines |-> ol]
    ELSE IF msg.ctype = "reasoning_recap"
    THEN [session |-> set_recap(s, msg.content), out_lines |-> ol]
    ELSE IF msg.role = "assistant" /\ msg.ctype = "code"
    THEN [session |-> add_code(s, msg.create_time, OrEmpty(msg.reasoning_title),
                               CodeLang(msg), OrEmpty(msg.text)),
          out_lines |-> ol]
    ELSE IF msg.role = "tool"
    THEN IF Lower(OrEmpty(msg.name)) = Str(<<"python">>) /\ msg.ctype = "execution_output"
         THEN [session |-> pair_code_output(s, msg.create_time, OrEmpty(msg.text)),
               out_lines |-> ol]
         ELSE [session |-> s, out_lines |-> ol]
    ELSE IF ~IsFinalText(msg)
    THEN [session |-> s, out_lines |-> ol]
    ELSE LET r == IF ~is_empty(s) THEN build_details_block(s, DefaultLabel)
                  ELSE [block |-> None, session |-> s]
         IN  IF msg.role = "user"
             THEN [session |-> r.session,
                   out_lines |-> UserBlock(extend_block(ol, OrEmpty(r.block)), msg)]
             ELSE [session |-> r.session, out_lines |-> AssistantBlock(ol, msg, r.block)]

\* NodeIter with the flush of line 739 made before the tests of lines 701-706
NodeIterFlushFirst(s, ol, msg) ==
    IF msg.ctype = "thoughts"
    THEN [session |-> add_thoughts(s, msg.create_time, msg.thoughts), out_lines |-> ol]
    ELSE IF msg.ctype = "reasoning_recap"
    THEN [session |-> set_recap(s, msg.content), out_lines |-> ol]
    ELSE IF msg.role = "assistant" /\ msg.ctype = "code"
    THEN [session |-> add_code(s, msg.create_time, OrEmpty(msg.reasoning_title),
                               CodeLang(msg), OrEmpty(msg.text)),
          out_lines |-> ol]
    ELSE IF msg.role = "tool"
    THEN IF Lower(OrEmpty(msg.name)) = Str(<<"python">>) /\ msg.ctype = "execution_output"
         THEN [session |-> pair_code_output(s, msg.create_time, OrEmpty(msg.text)),
               out_lines |-> ol]
         ELSE [session |-> s, out_lines |-> ol]
    ELSE IF msg.role \notin {"user", "assistant"} \/ msg.ctype \notin ALLOWED_CONTENT_TYPES
    THEN [session |-> s, out_lines |-> ol]
    ELSE IF msg.role = "user"
    THEN IF IsFinalText(msg) THEN [session |-> s, out_lines |-> UserBlock(ol, msg)]
         ELSE [session |-> s, out_lines |-> ol]
    ELSE LET r == IF ~is_empty(s) THEN build_details_block(s, DefaultLabel)
                  ELSE [block |-> None, session |-> s]
         IN  IF IsFinalText(msg)
             THEN [session |-> r.session, out_lines |-> AssistantBlock(ol, msg, r.block)]
             ELSE [session |-> r.session, out_lines |-> ol]

\* one iteration of the loop, lines 652-755: the session and the document
\* after the node whose message is msg
NodeIter(s, ol, msg) ==
    IF msg.ctype = "thoughts"
    THEN [session |-> add_thoughts(s, msg.create_time, msg.thoughts), out_lines |-> ol]
    ELSE IF msg.ctype = "reasoning_recap"
    THEN [session |-> set_recap(s, msg.content), out_lines |-> ol]
    ELSE IF msg.role = "assistant" /\ msg.ctype = "code"
    THEN [session |-> add_code(s, msg.create_time, OrEmpty(msg.reasoning_title),
                               CodeLang(msg), OrEmpty(msg.text)),
          out_lines |-> ol]
    ELSE IF msg.role = "tool"
    THEN IF Lower(OrEmpty(msg.name)) = Str(<<"python">>) /\ msg.ctype = "execution_output"
         THEN [session |-> pair_code_output(s, msg.create_time, OrEmpty(msg.text)),
               out_lines |-> ol]
         ELSE [session |-> s, out_lines |-> ol]
    ELSE IF ~IsFinalText(msg)
    THEN [session |-> s, out_lines |-> ol]
    ELSE IF msg.role = "user"
    THEN [session |-> s, out_lines |-> UserBlock(ol, msg)]
    ELSE LET r == IF ~is_empty(s) THEN build_details_block(s, DefaultLabel)
                  ELSE [block |-> None, session |-> s]
         IN  [session |-> r.session, out_lines |-> AssistantBlock(ol, msg, r.block)]

InitDriver ==
    /\ session = NewSession
    /\ block = <<>>
    /\ found = <<>>
    /\ fresh = <<>>
    /\ fresh_block = <<>>
    /\ out_lines = <<>>
    /\ dpc = "loop"
    /\ trace = <<>>
    /\ IdleBranch
    /\ IdleMath
    /\ IdleQuote

\* the loop takes the next node of the branch
DriverNode ==
    /\ dpc = "loop"
    /\ Len(trace) < MaxNodes
    /\ \E msg \in Messages(Len(trace) + 1) :
        LET r == NodeIter(session, out_lines, msg) IN
        /\ session' = r.session
        /\ out_lines' = r.out_lines
        /\ trace' = Append(trace, [msg |-> msg, pre |-> session, post |-> r.session,
                                   from |-> Len(out_lines), to |-> Len(r.out_lines)])
    /\ dpc' = "loop"
    /\ UNCHANGED notDriver

\* the trailing block of lines 758-764 that leaves the session pending
TrailingKeep(s, ol) ==
    IF ~is_empty(s)
    THEN [session |-> s,
          out_lines |-> TrailingBlock(ol, build_details_block(s, DefaultLabel).block)]
    ELSE [session |-> s, out_lines |-> ol]

\* lines 757-764: what is left after the loop
Trailing(s, ol) ==
    IF ~is_empty(s)
    THEN LET r == build_details_block(s, DefaultLabel) IN
         [session |-> r.session, out_lines |-> TrailingBlock(ol, r.block)]
    ELSE [session |-> s, out_lines |-> ol]

\* the branch is exhausted: lines 757-767
DriverEnd ==
    /\ dpc = "loop"
    /\ LET r == Trailing(session, out_lines) IN
        /\ session' = r.session
        /\ out_lines' = r.out_lines
    /\ dpc' = "done"
    /\ UNCHANGED trace
    /\ UNCHANGED notDriver

NextDriver == DriverNode \/ DriverEnd

SpecDriver == InitDriver /\ [][NextDriver]_vars

(* The node loop over the role and content-kind combinations, with math  *)
(* delimiters in every text.                                              *)

\* the messages that lines 662-706 dispatch, one of each kind
KindMsgs(n) ==
    { [NoMsg EXCEPT !.role = "assistant", !.ctype = "thoughts", !.create_time = n,
                    !.thoughts = << [is_dict |-> TRUE, summary |-> Str(<<"s">>),
                                     content |-> Str(<<InlineOpen, Tok("t", n), InlineClose>>)] >>],
      [NoMsg EXCEPT !.role = "assistant", !.ctype = "reasoning_recap",
                    !.create_time = n, !.content = Str(<<Tok("r", n)>>)],
      [NoMsg EXCEPT !.role = "assistant", !.ctype = "code", !.create_time = n,
                    !.text = << <<DisplayOpen>>, <<" ", InlineOpen, Tok("c", n), InlineClose>>,
                                <<DisplayClose>> >>,
                    !.language = Str(<<"py">>)],
      [NoMsg EXCEPT !.role = "tool", !.name = Str(<<"python">>),
                    !.ctype = "execution_output", !.create_time = n,
                    !.text = << <<DisplayOpen, Tok("o", n), DisplayClose>>,
                                <<" ", InlineOpen, "x", InlineClose>> >>],
      [NoMsg EXCEPT !.role = "user", !.ctype = "text", !.create_time = n,
                    !.parts = << Str(<<Tok("u", n)>>) >>],
      [NoMsg EXCEPT !.role = "assistant", !.ctype = "text", !.create_time = n,
                    !.parts = << Str(<<InlineOpen, Tok("a", n), InlineClose>>) >>] }

\* the messages the loop passes over: a final text that is empty or blank,
\* and combinations of role and content kind that no branch takes
PassedMsgs(n) ==
    { [NoMsg EXCEPT !.role = "user", !.ctype = "text", !.create_time = n,
                    !.parts = << Str(<<" ">>), EmptyStr >>],
      [NoMsg EXCEPT !.role = "assistant", !.ctype = "text", !.create_time = n,
                    !.parts = << Str(<<" ">>) >>],
      [NoMsg EXCEPT !.role = "assistant", !.ctype = "multimodal_text", !.create_time = n],
      [NoMsg EXCEPT !.role = "user", !.ctype = "code", !.create_time = n,
                    !.text = Str(<<Tok("c", n)>>), !.parts = << Str(<<Tok("u", n)>>) >>],
      [NoMsg EXCEPT !.role = "assistant", !.ctype = "execution_output", !.create_time = n,
                    !.text = Str(<<Tok("o", n)>>), !.parts = << Str(<<Tok("a", n)>>) >>],
      [NoMsg EXCEPT !.role = "tool", !.name = Str(<<"python">>), !.ctype = "text",
                    !.create_time = n, !.text = Str(<<Tok("o", n)>>),
                    !.parts = << Str(<<Tok("o", n)>>) >>],
      [NoMsg EXCEPT !.role = "tool", !.name = Str(<<"browser">>),
                    !.ctype = "execution_output", !.create_time = n,
                    !.text = Str(<<Tok("o", n)>>)],
      [NoMsg EXCEPT !.role = "system", !.ctype = "text", !.create_time = n,
                    !.parts = << Str(<<Tok("a", n)>>) >>],
      NoMsg }

\* the loop takes the next node of the branch
DriverKindNode ==
    /\ dpc = "loop"
    /\ Len(trace) < MaxNodes
    /\ \E msg \in KindMsgs(Len(trace) + 1) \cup PassedMsgs(Len(trace) + 1) :
        LET r == NodeIter(session, out_lines, msg) IN
        /\ session' = r.session
        /\ out_lines' = r.out_lines
        /\ trace' = Append(trace, [msg |-> msg, pre |-> session, post |-> r.session,
                                   from |-> Len(out_lines), to |-> Len(r.out_lines)])
    /\ dpc' = "loop"
    /\ UNCHANGED notDriver

NextKinds == DriverKindNode \/ DriverEnd

SpecKinds == InitDriver /\ [][NextKinds]_vars

----------------------------------------------------------------------------
(* Claims about the node loop. *)

\* the indices of the lines of ol that hold the token tok
LinesWith(tok, ol) == {j \in 1..Len(ol) : \E k \in 1..Len(ol[j]) : ol[j][k] = tok}

\* the positions of ol that hold the token tok
Occurrences(tok, ol) ==
    UNION { {<<j, k>> : k \in {c \in 1..Len(ol[j]) : ol[j][c] = tok}} : j \in 1..Len(ol) }

\* the tokens of a text
TokensOf(t) == UNION { {t[j][k] : k \in 1..Len(t[j])} : j \in 1..Len(t) }

\* node k is an execution output of the code tool, lines 686-689
IsExecOutput(msg) ==
    /\ msg.ctype \notin {"thoughts", "reasoning_recap"}
    /\ msg.role = "tool"
    /\ Lower(OrEmpty(msg.name)) = Str(<<"python">>)
    /\ msg.ctype = "execution_output"

\* the output of node k found no code item to attach to
Dropped(k) == IsExecOutput(trace[k].msg) /\ UnpairedIn(trace[k].pre) = {}

Adds(k) == Len(trace[k].post.items) > Len(trace[k].pre.items)

\* the token of the item node k added
ItemTok(k) == IF trace[k].msg.ctype = "thoughts" THEN Tok("t", k) ELSE Tok("c", k)

\* node m is an assistant final-text node with non-empty text
Flushes(m) == IsFinalText(trace[m].msg) /\ trace[m].msg.role = "assistant"

\* the assistant final-text nodes after node k
FlushesAfter(k) == {m \in (k + 1)..Len(trace) : Flushes(m)}

\* where the document stood when the loop ended
LoopEnd == IF trace = <<>> THEN 0 ELSE trace[Len(trace)].to

\* the number of lines of the header and the meta row of an assistant message
HeadLen == 1 + Len(render_ai_meta_row(EmptyStr, EmptyStr))

\* line j lies in the one collapsible block of the lines a+1..b
InTheBlockOf(j, a, b) ==
    LET opens == {d \in (a + 1)..b : out_lines[d] = <<"<details>">>}
        closes == {d \in (a + 1)..b : out_lines[d] = <<"</details>">>}
    IN  /\ Cardinality(opens) = 1
        /\ Cardinality(closes) = 1
        /\ \A d \in opens : d < j
        /\ \A d \in closes : j < d

\* C8: when the branch is exhausted the session is empty, and the item of
\* every node that added one is in the document exactly once, inside the one
\* collapsible block of the first assistant final-text node with non-empty
\* text after it, or, if there is none, inside the block of the trailing
\* assistant message, whose time is the unknown-time marker.
C8_EveryItemRenderedOnce ==
    dpc = "done" =>
        /\ is_empty(session)
        /\ \A k \in 1..Len(trace) :
            Adds(k) =>
                /\ Cardinality(Occurrences(ItemTok(k), out_lines)) = 1
                /\ \A j \in LinesWith(ItemTok(k), out_lines) :
                    IF FlushesAfter(k) # {}
                    THEN LET m == Min(FlushesAfter(k)) IN
                         InTheBlockOf(j, trace[m].from, trace[m].to)
                    ELSE /\ InTheBlockOf(j, LoopEnd, Len(out_lines))
                         /\ out_lines[LoopEnd + 1] = render_ai_header
                         /\ UnknownTime \in TokensOf(SubSeq(out_lines, LoopEnd + 2, LoopEnd + HeadLen))

\* a completed conversion with an item rendered in the message of an
\* assistant node and a later item rendered in the trailing block
C8_Witness ==
    /\ dpc = "done"
    /\ \E k1, k2 \in 1..Len(trace) :
        /\ Adds(k1) /\ FlushesAfter(k1) # {}
        /\ Adds(k2) /\ FlushesAfter(k2) = {}

\* the recap nodes before node m and after the last flush before it
RecapsBefore(m) ==
    {k \in 1..(m - 1) : /\ trace[k].msg.ctype = "reasoning_recap"
                        /\ \A f \in k..(m - 1) : ~Flushes(f)}

\* the header the block of node m shows: the text of the last recap node, if
\* there is one and its text is not empty, else the default label
HeaderOf(m) ==
    LET text == IF RecapsBefore(m) = {} THEN EmptyStr
                ELSE Strip(OrEmpty(trace[Max(RecapsBefore(m))].msg.content))
    IN  html_escape(IF text # EmptyStr THEN text ELSE DefaultLabel)[1]

\* C9: the message of an assistant final-text node with non-empty text that
\* finds the session non-empty is: header and meta row, the block the flush
\* returned, one blank separator line, the body (which does not begin with a
\* blank line), three blank lines; the header of the block is the text of
\* the most recent recap if one is set, else the default label. If the node
\* finds the session empty, its message holds no block.
C9_BlockBlankBody ==
    \A m \in 1..Len(trace) :
        Flushes(m) =>
            LET pre == trace[m].pre
                em == SubSeq(out_lines, trace[m].from + 1, trace[m].to)
                body == SplitLines(beautify_markdown(RawText(trace[m].msg)))
                blk == SplitLines(build_details_block(pre, DefaultLabel).block)
            IN  /\ body # <<>> /\ ~IsBlankLine(body[1])
                /\ IF ~is_empty(pre)
                   THEN /\ SubSeq(em, HeadLen + 1, Len(em)) = blk \o <<BLANK>> \o body \o TRIPLE_BLANK
                        /\ blk[1] = <<"<details>">>
                        /\ blk[2] = <<"<summary>", "[think]", " ">> \o HeaderOf(m)
                                        \o <<"</summary>">>
                        /\ blk[Len(blk)] = <<"</details>">>
                        /\ is_empty(trace[m].post)
                   ELSE /\ SubSeq(em, HeadLen + 1, Len(em)) = <<BLANK>> \o body \o TRIPLE_BLANK
                        /\ \A j \in 1..Len(em) : em[j] # <<"<details>">>

\* an assistant message that shows the second of two recaps
C9_Witness ==
    /\ Len(trace) = 3
    /\ Flushes(3)
    /\ \A k \in 1..2 : /\ trace[k].msg.ctype = "reasoning_recap"
                       /\ Truthy(trace[k].msg.content)
    /\ Tok("r", 2) \in TokensOf(SubSeq(out_lines, trace[3].from + 1, trace[3].to))

(* Claims about a malformed tree. *)

\* the document of a branch without a node: the loop of lines 652-755 is not
\* entered, lines 757-767 follow
EmptyBranchDocument == JoinNL(Trailing(NewSession, <<>>).out_lines)

\* the leaf id is null, or no node is stored under it
LeafMissing == ~HasNode(current_node)

\* a is the leaf or an ancestor the walk reaches, and names a parent that no
\* node is stored under
MissingParentAt(a) ==
    /\ a \in AncestorsOrSelf(current_node)
    /\ ParentOf(a) # 0
    /\ ~HasNode(ParentOf(a))

\* b is the chain of parent links from a down to the leaf
IsChainFrom(b, a) ==
    /\ Len(b) >= 1
    /\ b[1] = a
    /\ b[Len(b)] = current_node
    /\ \A k \in 2..Len(b) : ParentOf(b[k]) = b[k - 1]

\* C15: a missing leaf or a missing parent ends the walk without an error:
\* when the leaf id is null or has no node in the graph, the resolved branch
\* is empty and the document of that branch is the empty text; when an
\* ancestor's parent id has no node in the graph, the branch is the chain
\* from that ancestor down to the leaf.
C15_MalformedTree ==
    /\ (LeafMissing \/ \E a \in NodeIds : MissingParentAt(a)) ~> (bpc = "done")
    /\ []((bpc = "done" /\ LeafMissing) =>
            (branch_ids = <<>> /\ EmptyBranchDocument = EmptyStr))
    /\ [](bpc = "done" =>
            \A a \in NodeIds : MissingParentAt(a) => IsChainFrom(branch_ids, a))

\* a finished walk from a leaf whose grandparent is not in the graph
C15_Witness ==
    /\ bpc = "done"
    /\ \E a \in NodeIds : a # current_node /\ MissingParentAt(a)
    /\ Len(branch_ids) = 2

(* Claims about blank lines. *)

\* C16: every blank line of the document is a whole line of exactly two
\* spaces; the document has no zero-length line.
C16_NoZeroLengthLine ==
    dpc = "done" =>
        \A j \in 1..Len(out_lines) :
            IsBlankLine(out_lines[j]) => out_lines[j] = <<" ", " ">>

(* Claims about the nodes the loop passes over. *)

\* the message is one of the four kinds the loop feeds to the session
FeedsSession(msg) ==
    \/ msg.ctype = "thoughts"
    \/ msg.ctype = "reasoning_recap"
    \/ msg.role = "assistant" /\ msg.ctype = "code"
    \/ /\ msg.role = "tool"
       /\ Lower(OrEmpty(msg.name)) = Str(<<"python">>)
       /\ msg.ctype = "execution_output"

\* a user or assistant message of a final-text kind
HasFinalTextKind(msg) ==
    /\ ~FeedsSession(msg)
    /\ msg.role \in {"user", "assistant"}
    /\ msg.ctype \in ALLOWED_CONTENT_TYPES

\* the text parts of the message, joined and trimmed, are the empty text
TextIsEmpty(msg) == Strip(JoinNL(msg.parts)) = EmptyStr

\* the loop passes over the message
PassedOver(msg) ==
    \/ HasFinalTextKind(msg) /\ TextIsEmpty(msg)
    \/ ~FeedsSession(msg) /\ ~HasFinalTextKind(msg)

\* C21: a node the loop passes over (a user or assistant final-text node
\* whose joined, trimmed text is empty, or a role and content kind outside
\* the five dispatched cases) adds no line to the document and leaves the
\* session as it found it; an empty assistant text does not flush.
C21_SkippedNodeNoEffect ==
    /\ \A m \in 1..Len(trace) :
        PassedOver(trace[m].msg) =>
            /\ trace[m].post = trace[m].pre
            /\ trace[m].to = trace[m].from
    /\ (dpc = "loop" /\ trace # <<>>) =>
        /\ Len(out_lines) = trace[Len(trace)].to
        /\ session = trace[Len(trace)].post
    /\ \A m \in 2..Len(trace) :
        /\ trace[m].from = trace[m - 1].to
        /\ trace[m].pre = trace[m - 1].post

\* a thought, then an assistant node with blank text that leaves it pending,
\* then an assistant node whose message holds the thought
C21_Witness ==
    /\ Len(trace) = 3
    /\ trace[1].msg.ctype = "thoughts"
    /\ HasFinalTextKind(trace[2].msg) /\ trace[2].msg.role = "assistant"
    /\ TextIsEmpty(trace[2].msg)
    /\ trace[2].post.items # <<>>
    /\ IsFinalText(trace[3].msg) /\ trace[3].msg.role = "assistant"
    /\ LinesWith(Tok("t", 1), out_lines) # {}
    /\ trace[3].post = NewSession

(* Claims about user messages. *)

\* node m is a user final-text node with non-empty text
IsUserNode(m) == IsFinalText(trace[m].msg) /\ trace[m].msg.role = "user"

\* the nodes before node m whose item is pending when the loop reaches m
PendingAt(m) == {k \in 1..(m - 1) : Adds(k) /\ \A f \in (k + 1)..(m - 1) : ~Flushes(f)}

\* C22: a user message leaves the session as it found it and its block is
\* the header, the time row, one blank line, the body and three blank lines,
\* whatever the session holds: no collapsible block; the items pending at a
\* user node are not in the document up to the end of its block, and when
\* the branch is exhausted each is inside the block of the first assistant
\* final-text node with non-empty text after the user node, or inside the
\* trailing block if there is none.
C22_UserLeavesSession ==
    \A m \in 1..Len(trace) :
        IsUserNode(m) =>
            /\ trace[m].post = trace[m].pre
            /\ SubSeq(out_lines, trace[m].from + 1, trace[m].to)
                    = UserBlock(<<>>, trace[m].msg)
            /\ \A j \in (trace[m].from + 1)..trace[m].to :
                    /\ out_lines[j] # <<"<details>">>
                    /\ out_lines[j] # <<"</details>">>
            /\ \A k \in PendingAt(m) :
                /\ \A j \in LinesWith(ItemTok(k), out_lines) : j > trace[m].to
                /\ dpc = "done" =>
                    /\ LinesWith(ItemTok(k), out_lines) # {}
                    /\ \A j \in LinesWith(ItemTok(k), out_lines) :
                        IF FlushesAfter(m) # {}
                        THEN LET f == Min(FlushesAfter(m)) IN
                             InTheBlockOf(j, trace[f].from, trace[f].to)
                        ELSE InTheBlockOf(j, LoopEnd, Len(out_lines))

\* a completed conversion: an item, then a user message, then an assistant
\* message that holds the item
C22_Witness ==
    /\ dpc = "done"
    /\ Len(trace) = 3
    /\ IsUserNode(2)
    /\ PendingAt(2) = {1}
    /\ trace[2].pre.recap_text = None
    /\ FlushesAfter(2) = {3}
    /\ \E j \in LinesWith(ItemTok(1), out_lines) : j > trace[3].from

(* Claims about the forward pass. *)

\* the lines a+1..b of the document that are a message header
HeadersIn(a, b) ==
    {j \in (a + 1)..b : out_lines[j] \in {render_user_header, render_ai_header}}

\* the lines a+1..b of the document that open a collapsible block
DetailsIn(a, b) == {j \in (a + 1)..b : out_lines[j] = <<"<details>">>}

\* the token of the body of the final-text node m
BodyTok(m) == Tok(IF trace[m].msg.role = "user" THEN "u" ELSE "a", m)

\* the final-text nodes with non-empty text
FinalNodes == {m \in 1..Len(trace) : IsFinalText(trace[m].msg)}

\* C23: the loop appends to the document and never goes back: the lines of
\* node m follow those of node m - 1; a user or assistant final-text node
\* with non-empty text adds one message (one header, of its role, then its
\* body, which is nowhere else in the document) and any other node adds
\* nothing, so the messages stand in the order of their nodes and are as
\* many as those nodes; a user message holds no collapsible block, an
\* assistant message at most one, the lines after the loop at most one, so
\* the collapsible blocks are at most the assistant messages plus one.
C23_OneForwardPass ==
    /\ \A m \in 1..Len(trace) :
        /\ trace[m].from = (IF m = 1 THEN 0 ELSE trace[m - 1].to)
        /\ trace[m].from <= trace[m].to
        /\ trace[m].to <= Len(out_lines)
        /\ IF m \in FinalNodes
           THEN /\ HeadersIn(trace[m].from, trace[m].to) = {trace[m].from + 1}
                /\ out_lines[trace[m].from + 1] =
                        (IF trace[m].msg.role = "user" THEN render_user_header
                         ELSE render_ai_header)
                /\ Cardinality(Occurrences(BodyTok(m), out_lines)) = 1
                /\ LinesWith(BodyTok(m), out_lines) \subseteq (trace[m].from + 2)..trace[m].to
                /\ Cardinality(DetailsIn(trace[m].from, trace[m].to))
                        <= (IF trace[m].msg.role = "user" THEN 0 ELSE 1)
           ELSE trace[m].to = trace[m].from
    /\ Cardinality(HeadersIn(0, LoopEnd)) = Cardinality(FinalNodes)
    /\ Cardinality(DetailsIn(LoopEnd, Len(out_lines))) <= 1
    /\ Cardinality(DetailsIn(0, Len(out_lines)))
            <= Cardinality({m \in FinalNodes : trace[m].msg.role = "assistant"}) + 1
    /\ dpc = "loop" => Len(out_lines) = LoopEnd

\* a completed conversion with one assistant message and two collapsible
\* blocks, the second one in the trailing message
C23_Witness ==
    /\ dpc = "done"
    /\ Len(trace) = 3
    /\ Adds(1) /\ Flushes(2) /\ Adds(3)
    /\ Cardinality(DetailsIn(0, Len(out_lines))) = 2
    /\ Cardinality(DetailsIn(LoopEnd, Len(out_lines))) = 1

(* Claims about where math is rewritten. *)

\* the lines a..b of the document are the lines of the text t, each behind
\* the quote marker and one space
QuotedAt(a, t) ==
    /\ a >= 1
    /\ a + Len(t) - 1 <= Len(out_lines)
    /\ \A k \in 1..Len(t) : out_lines[a + k - 1] = <<">", " ">> \o t[k]

\* the one line of the document that holds the token tok
LineOf(tok) == CHOOSE j \in LinesWith(tok, out_lines) : TRUE

\* node k is an assistant code node
IsCodeNode(k) ==
    /\ trace[k].msg.ctype \notin {"thoughts", "reasoning_recap"}
    /\ trace[k].msg.role = "assistant"
    /\ trace[k].msg.ctype = "code"

\* C25: when the branch is exhausted, the code of every code node stands in
\* the document line for line behind the quote marker, its math delimiters
\* as they were, and so does the output of every execution output that
\* found a code item; the content of a thought and the body of a message
\* stand there with their inline delimiters rewritten; and the block of an
\* assistant message is the block the flush returned, line for line.
C25_MathOnlyInThoughtsAndBody ==
    dpc = "done" =>
        \A k \in 1..Len(trace) :
            LET msg == trace[k].msg IN
            /\ IsCodeNode(k) =>
                /\ Cardinality(LinesWith(Tok("c", k), out_lines)) = 1
                /\ QuotedAt(LineOf(Tok("c", k)) - 1, msg.text)
            /\ (IsExecOutput(msg) /\ ~Dropped(k)) =>
                /\ Cardinality(LinesWith(Tok("o", k), out_lines)) = 1
                /\ QuotedAt(LineOf(Tok("o", k)), msg.text)
            /\ (msg.ctype = "thoughts" /\ Adds(k)) =>
                /\ Cardinality(LinesWith(Tok("t", k), out_lines)) = 1
                /\ out_lines[LineOf(Tok("t", k))] = <<">", " ", "$", Tok("t", k), "$">>
            /\ Flushes(k) =>
                /\ Cardinality(LinesWith(Tok("a", k), out_lines)) = 1
                /\ out_lines[LineOf(Tok("a", k))] = <<"$", Tok("a", k), "$">>
                /\ ~is_empty(trace[k].pre) =>
                    LET blk == SplitLines(build_details_block(trace[k].pre, DefaultLabel).block)
                    IN  SubSeq(out_lines, trace[k].from + HeadLen + 1,
                               trace[k].from + HeadLen + Len(blk)) = blk

\* a completed conversion: a code node, its output, and the assistant message
\* that holds both in its block, delimiters and all
C25_Witness ==
    /\ dpc = "done"
    /\ Len(trace) = 3
    /\ IsCodeNode(1)
    /\ IsExecOutput(trace[2].msg) /\ ~Dropped(2)
    /\ Flushes(3)
    /\ \E j \in 1..Len(out_lines) : out_lines[j] = <<">", " ", DisplayOpen>>
    /\ \E j \in 1..Len(out_lines) :
            out_lines[j] = <<">", " ", DisplayOpen, Tok("o", 2), DisplayClose>>
    /\ \E j \in 1..Len(out_lines) : out_lines[j] = <<"$", Tok("a", 3), "$">>

(* Claims about the end of the scan. *)

\* the iteration the scan has just made started at a display opener that no
\* later line closes
MadeOpenBlock ==
    /\ MadeBlock
    /\ \A j \in (i - scanned[1].consumed + 1)..Len(lines) :
            StripLine(lines[j]) # <<DisplayClose>>

\* C26: the scan ends on every input; the index starts at the first line,
\* grows with every iteration and ends exactly one past the last line, so
\* every line is read by one iteration and by no other; a block whose opener
\* no later line closes takes every line to the end of the text and emits
\* them, trimmed, between an opening and a closing line of two dollar signs.
C26_ScanTerminates ==
    /\ <>ScanDone
    /\ [](i >= 1 /\ i <= Len(lines) + 1)
    /\ [](scanned # <<>> => (scanned[1].consumed >= 1 /\ i - scanned[1].consumed >= 1))
    /\ [][i' > i]_vars
    /\ [](MadeOpenBlock =>
            LET em == scanned[1].emitted
                first == i - scanned[1].consumed
                n == Len(lines) - first
                a == IF IsBlankLine(em[1]) /\ Len(em) = n + 4 THEN 2 ELSE 1
            IN  /\ i = Len(lines) + 1
                /\ scanned[1].consumed = n + 1
                /\ Len(em) = a + n + 2
                /\ StripLine(em[a]) = <<"$", "$">>
                /\ \A k \in 1..n : StripLine(em[a + k]) = StripLine(lines[first + k])
                /\ StripLine(em[a + n + 1]) = <<"$", "$">>
                /\ em[a + n + 2] = <<>>)

\* the scan has ended with a block that opened at the first of three lines
\* and was never closed
C26_Witness ==
    /\ ScanDone
    /\ MadeOpenBlock
    /\ Len(lines) = 3
    /\ scanned[1].consumed = 3
    /\ lines[2] = <<"a">>
    /\ out = << <<"$", "$">>, <<"a">>, StripLine(lines[3]), <<"$", "$">>, <<>> >>

=============================================================================
